---- MODULE Spec2Model ----
(***************************************************************************)
(* A model of src/RPG/wizardry.py: the tile grid of GameMap, the door and  *)
(* trigger behaviours, the player pose of Raycaster (position, direction,  *)
(* camera plane, rotation interpolation), the tick loop of RPG._main_loop  *)
(* the DDA ray cast of GameRenderer._cast_ray and the texture lookup of    *)
(* WallRenderer.render_3d.                                                 *)
(*                                                                         *)
(* Real numbers are kept exactly, as integers over a fixed denominator:    *)
(*   pos_x2, pos_y2          = 2 * pos_x, 2 * pos_y                        *)
(*   dir_*, target_dir_*     = value * DirUnit                             *)
(*   plane_*, target_plane_* = value * PlaneUnit                           *)
(*   rotation_progress       = value * RotationTicks  (steps of 0.2)       *)
(*   door progress           = value * ProgressUnit                        *)
(*   delta_time              = seconds * DoorRate * ProgressUnit           *)
(* math.cos(pi/2) is taken as 0 and math.sin(+-pi/2) as +-1; the rounding  *)
(* of binary floating point is not modelled.                               *)
(***************************************************************************)
EXTENDS Integers, Sequences, FiniteSets, TLC

\* ------------------------------------------------------------ constants
width == 10
height == 10
RotationTicks == 5          \* 1 / rotation_speed, rotation_speed = 0.2
DoorRate == 2               \* progress units per second in DoorBehavior.update
PlaneDen == 50              \* the plane length 0.66 is 33 / PlaneDen
PlaneNum == 33

\* --------------------------------------------------------------- bounds
DirExp == 4                 \* direction vectors are multiples of RotationTicks^-DirExp
TickSteps == 2              \* the tick loop's delta-times are 0..TickSteps coarse steps
SubSteps == 2               \* fine delta-time steps in one coarse step
RayMax == 2                 \* ray directions have integer components in -RayMax..RayMax
MaxToggles == 3             \* toggles of a door exercised alone
MaxCalls == 6               \* on_player_step calls on a trigger stepped on alone
PoseExp == 6                \* as DirExp, for the pose turned alone
WallSteps == 20             \* the wall_x of a rendered door hit are the fractions k / WallSteps
InvCapacity == 2            \* Inventory.capacity of the inventory exercised alone
MaxOps == 5                 \* calls made on an inventory or a player exercised alone

DirUnit == RotationTicks ^ DirExp
PlaneUnit == PlaneDen * DirUnit
InterpDiv == RotationTicks ^ (RotationTicks - 1)
ProgressUnit == TickSteps * SubSteps    \* door progress 1.0

VARIABLES
    pos_x2, pos_y2,
    dir_x, dir_y, plane_x, plane_y,
    target_dir_x, target_dir_y, target_plane_x, target_plane_y,
    rotating, rotation_progress,
    door, trig,
    running, inventory_open, inventory_transition,
    delta_time, key, pc,
    \* the door exercised alone: what has been fed since the last toggle
    toggles, fed, feeds, exact,
    \* the locals of GameRenderer._cast_ray
    ray_dir_x, ray_dir_y, map_x, map_y, side_dist_x, side_dist_y, side,
    ray_cell, door_cell, perp_dist, wall_x, ray_steps, ray_pc,
    \* a trigger stepped on directly: per trigger the calls of on_player_step
    \* and the calls that returned True, the FlashAnimations added, the last
    \* return value
    calls, fired, flashes, step_result,
    \* the pose turned alone: direction and plane as they were when rotate
    \* was last called, the sense of that call, the update_rotation calls
    \* made since
    start_dir_x, start_dir_y, start_plane_x, start_plane_y, turn, ticks_since,
    \* a wall hit rendered alone: WallRenderer.texture_id and the value of
    \* render_3d
    texture_id, glyph,
    \* one sweep of the AnimationUpdater followed alone: the cells visited
    \* so far and the behaviours as they were before the sweep
    visited, door_before, trig_before,
    \* an inventory and its player exercised alone: Inventory.items as
    \* records id, count and equipped, Inventory.selected_index, the
    \* PlayerInfo, the last call with its arguments and outcome, the calls made
    items, selected_index, player, last_call, ops

poseVars == <<pos_x2, pos_y2, dir_x, dir_y, plane_x, plane_y,
              target_dir_x, target_dir_y, target_plane_x, target_plane_y,
              rotating, rotation_progress>>
rotVars == <<dir_x, dir_y, plane_x, plane_y,
             target_dir_x, target_dir_y, target_plane_x, target_plane_y,
             rotating, rotation_progress>>
tileVars == <<door, trig>>
loopVars == <<running, inventory_open, inventory_transition, delta_time, key, pc>>
feedVars == <<toggles, fed, feeds, exact>>
rayVars == <<ray_dir_x, ray_dir_y, map_x, map_y, side_dist_x, side_dist_y, side,
             ray_cell, door_cell, perp_dist, wall_x, ray_steps, ray_pc>>
stepVars == <<calls, fired, flashes, step_result>>
histVars == <<start_dir_x, start_dir_y, start_plane_x, start_plane_y, turn, ticks_since>>
texVars == <<texture_id, glyph>>
sweepVars == <<visited, door_before, trig_before>>
invVars == <<items, selected_index, player, last_call, ops>>
\* what the tick loop, the door alone and the ray cast leave alone
sideVars == <<stepVars, histVars, texVars, sweepVars, invVars>>

\* ------------------------------------------------------------- helpers
Abs(n) == IF n < 0 THEN -n ELSE n

\* Python's int() of the rational n / d (d > 0): truncation toward zero.
Trunc(n, d) == IF n >= 0 THEN n \div d ELSE -((-n) \div d)

\* A non-negative rational n / d; d = 0 stands for float('inf').
Inf == [n |-> 1, d |-> 0]

RECURSIVE GCD(_, _)
GCD(a, b) == IF b = 0 THEN a ELSE GCD(b, a % b)

RNorm(r) ==
    LET g == GCD(r.n, r.d)
    IN  IF g = 0 THEN r ELSE [n |-> r.n \div g, d |-> r.d \div g]

\* a < b on floats, inf included
RLess(a, b) ==
    IF a.d = 0 THEN FALSE
    ELSE IF b.d = 0 THEN TRUE
    ELSE a.n * b.d < b.n * a.d

\* a + b on floats, inf included
RAdd(a, b) ==
    IF a.d = 0 \/ b.d = 0 THEN Inf
    ELSE RNorm([n |-> a.n * b.d + b.n * a.d, d |-> a.d * b.d])

\* ----------------------------------------------------------------- map
\* GameMap.generate_default_map: the kind of the cell grid[x][y].
CellKind(x, y) ==
    IF x = 3 /\ y = 3 THEN "trigger"
    ELSE IF x = 7 /\ y = 7 THEN "trigger"
    ELSE IF x = height \div 2 /\ y \in 3..7
         THEN (IF y = 5 THEN "door" ELSE "inner_wall")
    ELSE IF x = 0 \/ x = height - 1 \/ y = 0 \/ y = width - 1 THEN "outer_wall"
    ELSE "floor"

\* InteractiveFloorBehavior.can_retrigger of the two triggers of the map.
CanRetrigger(c) == c = <<3, 3>>

\* the bounds check without its upper limits
ValidNoUpperLimit(x, y) == 0 <= x /\ 0 <= y

\* GameMap.is_valid_position
is_valid_position(x, y) == 0 <= x /\ x < height /\ 0 <= y /\ y < width

Cells == (0..(height - 1)) \X (0..(width - 1))
DoorCells == {c \in Cells : CellKind(c[1], c[2]) = "door"}
TriggerCells == {c \in Cells : CellKind(c[1], c[2]) = "trigger"}

\* MapCell.is_wall as the CellFactory sets it: walls and doors.
CellIsWall(x, y) == CellKind(x, y) \in {"outer_wall", "inner_wall", "door"}

\* MapCell.behavior is not None: doors and interactive floors.
HasBehavior(x, y) == CellKind(x, y) \in {"door", "trigger"}

\* GameMap.is_wall
is_wall(x, y) ==
    IF ~is_valid_position(x, y) THEN TRUE
    ELSE CellIsWall(x, y)
         /\ ~(CellKind(x, y) = "door" /\ door[<<x, y>>].door_open)

\* get_cell without the bounds check
GetCellUnchecked(x, y) == CellKind(x, y)

\* GameMap.get_cell: the cell grid[x][y], as its kind, or None
get_cell(x, y) == IF is_valid_position(x, y) THEN CellKind(x, y) ELSE "None"

\* ---------------------------------------------------------------- door
\* DoorBehavior.__init__
NewDoor ==
    [door_open |-> FALSE, door_animating |-> FALSE,
     door_animation_type |-> "none", door_animation_progress |-> 0]

\* update with > for >=: progress 1.0 does not end the swing
DoorUpdateStrict(d, dt) ==
    IF d.door_animating
    THEN LET p == d.door_animation_progress + dt
         IN  IF p > ProgressUnit
             THEN [door_open |-> ~d.door_open, door_animating |-> FALSE,
                   door_animation_type |-> "none", door_animation_progress |-> p]
             ELSE [d EXCEPT !.door_animation_progress = p]
    ELSE d

\* update that opens the door at the end of a swing instead of toggling it
DoorUpdateOpens(d, dt) ==
    IF d.door_animating
    THEN LET p == d.door_animation_progress + dt
         IN  IF p >= ProgressUnit
             THEN [door_open |-> TRUE, door_animating |-> FALSE,
                   door_animation_type |-> "none", door_animation_progress |-> p]
             ELSE [d EXCEPT !.door_animation_progress = p]
    ELSE d

\* DoorBehavior.update: the door d after update(dt)
DoorUpdate(d, dt) ==
    IF d.door_animating
    THEN LET p == d.door_animation_progress + dt
         IN  IF p >= ProgressUnit
             THEN [door_open |-> ~d.door_open, door_animating |-> FALSE,
                   door_animation_type |-> "none", door_animation_progress |-> p]
             ELSE [d EXCEPT !.door_animation_progress = p]
    ELSE d

\* on_interact without the guard on door_animating
DoorInteractUnguarded(d) ==
    [door_open |-> d.door_open, door_animating |-> TRUE,
     door_animation_type |-> IF d.door_open THEN "closing" ELSE "opening",
     door_animation_progress |-> 0]

\* on_interact that starts an opening swing whatever door_open is
DoorInteractAlwaysOpening(d) ==
    IF ~d.door_animating
    THEN [door_open |-> d.door_open, door_animating |-> TRUE,
          door_animation_type |-> "opening",
          door_animation_progress |-> 0]
    ELSE d

\* DoorBehavior.on_interact: the door d after on_interact
DoorInteract(d) ==
    IF ~d.door_animating
    THEN [door_open |-> d.door_open, door_animating |-> TRUE,
          door_animation_type |-> IF d.door_open THEN "closing" ELSE "opening",
          door_animation_progress |-> 0]
    ELSE d

\* ------------------------------------------------------------- trigger
\* InteractiveFloorBehavior.__init__
NewTrigger == [triggered |-> FALSE, trigger_time |-> 0]

\* on_player_step that fires on the first step only, can_retrigger ignored
StepFiresOnce(t, can_retrigger, now) ==
    IF ~t.triggered
    THEN [cell |-> [triggered |-> TRUE, trigger_time |-> now], ret |-> TRUE]
    ELSE [cell |-> t, ret |-> FALSE]

\* InteractiveFloorBehavior.on_player_step at time.time() = now: the
\* behaviour afterwards and the value returned; a return of True has added
\* one FlashAnimation
on_player_step(t, can_retrigger, now) ==
    IF ~t.triggered \/ can_retrigger
    THEN [cell |-> [triggered |-> TRUE, trigger_time |-> now], ret |-> TRUE]
    ELSE [cell |-> t, ret |-> FALSE]

\* ---------------------------------------------------------------- pose
\* The cell int(pos + dir * move), move = +1 or -1, of Raycaster.move
MoveCellX(s) == Trunc(pos_x2 * DirUnit + 2 * s * dir_x, 2 * DirUnit)
MoveCellY(s) == Trunc(pos_y2 * DirUnit + 2 * s * dir_y, 2 * DirUnit)

\* move without the test of is_wall
MoveThroughWalls(forward) ==
    LET s == IF forward THEN 1 ELSE -1
        nx == MoveCellX(s)
        ny == MoveCellY(s)
    IN  /\ pos_x2' = 2 * nx + 1 /\ pos_y2' = 2 * ny + 1
        /\ UNCHANGED rotVars
        /\ UNCHANGED tileVars

\* Raycaster.move
Move(forward) ==
    LET s == IF forward THEN 1 ELSE -1
        nx == MoveCellX(s)
        ny == MoveCellY(s)
    IN  /\ IF ~is_wall(nx, ny)
           THEN pos_x2' = 2 * nx + 1 /\ pos_y2' = 2 * ny + 1
           ELSE UNCHANGED <<pos_x2, pos_y2>>
        /\ UNCHANGED rotVars
        /\ UNCHANGED tileVars

\* The cell int(pos + dir * 0.7) of Raycaster.get_front_cell
FrontX == Trunc(5 * pos_x2 * DirUnit + 7 * dir_x, 10 * DirUnit)
FrontY == Trunc(5 * pos_y2 * DirUnit + 7 * dir_y, 10 * DirUnit)

\* Raycaster.rotate is exact in the model while the vectors leave room for
\* the divisions of the interpolation steps that follow it.
RotateExact ==
    \A v \in {dir_x, dir_y, plane_x, plane_y} : v % InterpDiv = 0

\* rotate that keeps the cosine terms only, which are 0 at a right angle
RotateCosineOnly(clockwise) ==
    /\ RotateExact
    /\ target_dir_x' = dir_x * 0
    /\ target_dir_y' = dir_y * 0
    /\ target_plane_x' = plane_x * 0
    /\ target_plane_y' = plane_y * 0
    /\ rotating' = TRUE
    /\ rotation_progress' = 0
    /\ UNCHANGED <<pos_x2, pos_y2, dir_x, dir_y, plane_x, plane_y>>
    /\ UNCHANGED tileVars

\* rotate that turns the target of the rotation in flight, not the
\* current vectors
RotateFromTarget(clockwise) ==
    LET sin == IF clockwise THEN -1 ELSE 1
    IN  /\ RotateExact
        /\ target_dir_x' = -(target_dir_y * sin)
        /\ target_dir_y' = target_dir_x * sin
        /\ target_plane_x' = -(target_plane_y * sin)
        /\ target_plane_y' = target_plane_x * sin
        /\ rotating' = TRUE
        /\ rotation_progress' = 0
        /\ UNCHANGED <<pos_x2, pos_y2, dir_x, dir_y, plane_x, plane_y>>
        /\ UNCHANGED tileVars

\* Raycaster.rotate
Rotate(clockwise) ==
    LET sin == IF clockwise THEN -1 ELSE 1
    IN  /\ RotateExact
        /\ target_dir_x' = -(dir_y * sin)
        /\ target_dir_y' = dir_x * sin
        /\ target_plane_x' = -(plane_y * sin)
        /\ target_plane_y' = plane_x * sin
        /\ rotating' = TRUE
        /\ rotation_progress' = 0
        /\ UNCHANGED <<pos_x2, pos_y2, dir_x, dir_y, plane_x, plane_y>>
        /\ UNCHANGED tileVars

Lerp(v, t, p) == (v * (RotationTicks - p) + t * p) \div RotationTicks

\* update_rotation with > for >=: progress 1.0 does not end the rotation
update_rotation_late ==
    IF ~rotating
    THEN UNCHANGED rotVars
    ELSE LET p == rotation_progress + 1
         IN  /\ rotation_progress' = p
             /\ UNCHANGED <<target_dir_x, target_dir_y, target_plane_x, target_plane_y>>
             /\ IF p > RotationTicks
                THEN /\ dir_x' = target_dir_x /\ dir_y' = target_dir_y
                     /\ plane_x' = target_plane_x /\ plane_y' = target_plane_y
                     /\ rotating' = FALSE
                ELSE /\ dir_x' = Lerp(dir_x, target_dir_x, p)
                     /\ dir_y' = Lerp(dir_y, target_dir_y, p)
                     /\ plane_x' = Lerp(plane_x, target_plane_x, p)
                     /\ plane_y' = Lerp(plane_y, target_plane_y, p)
                     /\ UNCHANGED rotating

\* Raycaster.update_rotation
update_rotation ==
    IF ~rotating
    THEN UNCHANGED rotVars
    ELSE LET p == rotation_progress + 1
         IN  /\ rotation_progress' = p
             /\ UNCHANGED <<target_dir_x, target_dir_y, target_plane_x, target_plane_y>>
             /\ IF p >= RotationTicks
                THEN /\ dir_x' = target_dir_x /\ dir_y' = target_dir_y
                     /\ plane_x' = target_plane_x /\ plane_y' = target_plane_y
                     /\ rotating' = FALSE
                ELSE /\ dir_x' = Lerp(dir_x, target_dir_x, p)
                     /\ dir_y' = Lerp(dir_y, target_dir_y, p)
                     /\ plane_x' = Lerp(plane_x, target_plane_x, p)
                     /\ plane_y' = Lerp(plane_y, target_plane_y, p)
                     /\ UNCHANGED rotating

\* Lines 1490-1496: on_interact of the cell in front, when it has a
\* behaviour; InteractiveFloorBehavior.on_interact does nothing
Interact ==
    /\ IF /\ get_cell(FrontX, FrontY) # "None"
          /\ HasBehavior(FrontX, FrontY)
          /\ get_cell(FrontX, FrontY) = "door"
       THEN door' = [door EXCEPT ![<<FrontX, FrontY>>] = DoorInteract(@)]
       ELSE UNCHANGED door
    /\ UNCHANGED trig
    /\ UNCHANGED poseVars

\* ----------------------------------------------------------- tick loop
\* The values of getch: the keys the loop knows, a key it does not know (x)
\* and no key within the timeout (none)
Keys == {"q", "i", "w", "s", "a", "d", "space", "x", "none"}
Deltas == {k * SubSteps : k \in 0..TickSteps}

\* InventoryTransitionAnimation: duration 0.5 s, in delta-time units
TransitionDuration == (DoorRate * ProgressUnit) \div 2

\* Lines 1438-1446: the loop test, delta-time, the transition's update
BeginTick ==
    /\ pc = "top"
    /\ running
    /\ \E dt \in Deltas :
        /\ delta_time' = dt
        /\ inventory_transition' =
              IF inventory_transition >= 0
                 /\ inventory_transition + dt < TransitionDuration
              THEN inventory_transition + dt
              ELSE -1
    /\ pc' = "input"
    /\ UNCHANGED <<running, inventory_open, key>>
    /\ UNCHANGED poseVars
    /\ UNCHANGED tileVars
    /\ UNCHANGED feedVars
    /\ UNCHANGED sideVars
    /\ UNCHANGED rayVars

\* the key dispatch with the forward move as the default of the game view
HandleKeyAnyKeyMoves(k) ==
    IF k = "q"
    THEN /\ running' = FALSE
         /\ UNCHANGED <<inventory_open, inventory_transition>>
         /\ UNCHANGED poseVars /\ UNCHANGED tileVars
    ELSE IF k = "i" /\ inventory_transition < 0
    THEN /\ inventory_transition' = 0
         /\ inventory_open' = ~inventory_open
         /\ UNCHANGED running
         /\ UNCHANGED poseVars /\ UNCHANGED tileVars
    ELSE IF inventory_open
    THEN /\ UNCHANGED <<running, inventory_open, inventory_transition>>
         /\ UNCHANGED poseVars /\ UNCHANGED tileVars
    ELSE IF inventory_transition < 0
    THEN /\ UNCHANGED <<running, inventory_open, inventory_transition>>
         /\ CASE k = "w" -> Move(TRUE)
              [] k = "s" -> Move(FALSE)
              [] k = "a" -> Rotate(FALSE)
              [] k = "d" -> Rotate(TRUE)
              [] k = "space" -> Interact
              [] OTHER -> Move(TRUE)
    ELSE /\ UNCHANGED <<running, inventory_open, inventory_transition>>
         /\ UNCHANGED poseVars /\ UNCHANGED tileVars

\* Lines 1449-1496: one polled key and its action. The keys of the inventory
\* screen (lines 1458-1479) act on the inventory and the player's statistics,
\* which are not part of this state; the rotation is exact only under
\* RotateExact, so a key that rotates is not taken otherwise.
HandleKey(k) ==
    IF k = "q"
    THEN /\ running' = FALSE
         /\ UNCHANGED <<inventory_open, inventory_transition>>
         /\ UNCHANGED poseVars /\ UNCHANGED tileVars
    ELSE IF k = "i" /\ inventory_transition < 0
    THEN /\ inventory_transition' = 0
         /\ inventory_open' = ~inventory_open
         /\ UNCHANGED running
         /\ UNCHANGED poseVars /\ UNCHANGED tileVars
    ELSE IF inventory_open
    THEN /\ UNCHANGED <<running, inventory_open, inventory_transition>>
         /\ UNCHANGED poseVars /\ UNCHANGED tileVars
    ELSE IF inventory_transition < 0
    THEN /\ UNCHANGED <<running, inventory_open, inventory_transition>>
         /\ CASE k = "w" -> Move(TRUE)
              [] k = "s" -> Move(FALSE)
              [] k = "a" -> Rotate(FALSE)
              [] k = "d" -> Rotate(TRUE)
              [] k = "space" -> Interact
              [] OTHER -> UNCHANGED poseVars /\ UNCHANGED tileVars
    ELSE /\ UNCHANGED <<running, inventory_open, inventory_transition>>
         /\ UNCHANGED poseVars /\ UNCHANGED tileVars

HandleInput ==
    /\ pc = "input"
    /\ \E k \in Keys : key' = k /\ HandleKey(k)
    /\ pc' = "animate"
    /\ UNCHANGED delta_time
    /\ UNCHANGED feedVars
    /\ UNCHANGED sideVars
    /\ UNCHANGED rayVars

\* the animation step that updates the cells in the game view only
UpdateAnimationsGameViewOnly ==
    /\ pc = "animate"
    /\ update_rotation
    /\ door' = IF inventory_open THEN door
               ELSE [c \in DoorCells |-> DoorUpdate(door[c], delta_time)]
    /\ UNCHANGED trig
    /\ pc' = "render"
    /\ delta_time' = 0
    /\ key' = "none"
    /\ UNCHANGED <<pos_x2, pos_y2>>
    /\ UNCHANGED <<running, inventory_open, inventory_transition>>
    /\ UNCHANGED feedVars
    /\ UNCHANGED sideVars
    /\ UNCHANGED rayVars

\* the animation step without update_rotation
UpdateAnimationsDoorsOnly ==
    /\ pc = "animate"
    /\ UNCHANGED rotVars
    /\ door' = [c \in DoorCells |-> DoorUpdate(door[c], delta_time)]
    /\ UNCHANGED trig
    /\ pc' = "render"
    /\ delta_time' = 0
    /\ key' = "none"
    /\ UNCHANGED <<pos_x2, pos_y2>>
    /\ UNCHANGED <<running, inventory_open, inventory_transition>>
    /\ UNCHANGED feedVars
    /\ UNCHANGED sideVars
    /\ UNCHANGED rayVars

\* Lines 1498-1502: update_rotation, then
\* GameMap.accept_visitor(AnimationUpdater(delta_time)). The locals key and
\* delta_time are dead from here on and are cleared.
UpdateAnimations ==
    /\ pc = "animate"
    /\ update_rotation
    /\ door' = [c \in DoorCells |-> DoorUpdate(door[c], delta_time)]
    /\ UNCHANGED trig
    /\ pc' = "render"
    /\ delta_time' = 0
    /\ key' = "none"
    /\ UNCHANGED <<pos_x2, pos_y2>>
    /\ UNCHANGED <<running, inventory_open, inventory_transition>>
    /\ UNCHANGED feedVars
    /\ UNCHANGED sideVars
    /\ UNCHANGED rayVars

\* the loop ending after the first frame, whatever running is
RenderEndsLoop ==
    /\ pc = "render"
    /\ pc' = "done"
    /\ UNCHANGED poseVars
    /\ UNCHANGED tileVars
    /\ UNCHANGED <<running, inventory_open, inventory_transition, delta_time, key>>
    /\ UNCHANGED feedVars
    /\ UNCHANGED sideVars
    /\ UNCHANGED rayVars

\* Lines 1504-1517: the frame is drawn; the loop test follows
Render ==
    /\ pc = "render"
    /\ pc' = IF running THEN "top" ELSE "done"
    /\ UNCHANGED poseVars
    /\ UNCHANGED tileVars
    /\ UNCHANGED <<running, inventory_open, inventory_transition, delta_time, key>>
    /\ UNCHANGED feedVars
    /\ UNCHANGED sideVars
    /\ UNCHANGED rayVars

vars == <<pos_x2, pos_y2, dir_x, dir_y, plane_x, plane_y,
          target_dir_x, target_dir_y, target_plane_x, target_plane_y,
          rotating, rotation_progress, door, trig,
          running, inventory_open, inventory_transition, delta_time, key, pc,
          toggles, fed, feeds, exact,
          ray_dir_x, ray_dir_y, map_x, map_y, side_dist_x, side_dist_y, side,
          ray_cell, door_cell, perp_dist, wall_x, ray_steps, ray_pc,
          calls, fired, flashes, step_result,
          start_dir_x, start_dir_y, start_plane_x, start_plane_y, turn, ticks_since,
          texture_id, glyph,
          visited, door_before, trig_before,
          items, selected_index, player, last_call, ops>>

\* Raycaster.__init__
InitPose ==
    /\ pos_x2 = 3 /\ pos_y2 = 3
    /\ dir_x = DirUnit /\ dir_y = 0
    /\ plane_x = 0 /\ plane_y = -(PlaneNum * DirUnit)
    /\ target_dir_x = DirUnit /\ target_dir_y = 0
    /\ target_plane_x = 0 /\ target_plane_y = -(PlaneNum * DirUnit)
    /\ rotating = FALSE /\ rotation_progress = 0

\* GameMap.generate_default_map: the behaviours of the doors and triggers
InitTiles ==
    /\ door = [c \in DoorCells |-> NewDoor]
    /\ trig = [c \in TriggerCells |-> NewTrigger]

\* RPG.__init__
InitLoop ==
    /\ running = TRUE /\ inventory_open = FALSE /\ inventory_transition = -1
    /\ delta_time = 0 /\ key = "none" /\ pc = "top"

\* No door is being exercised alone
FeedIdle == toggles = 0 /\ fed = 0 /\ feeds = 0 /\ exact = TRUE

\* No trigger is being stepped on directly
StepIdle ==
    /\ calls = [c \in TriggerCells |-> 0] /\ fired = [c \in TriggerCells |-> 0]
    /\ flashes = 0 /\ step_result = "none"

\* The pose is not being turned alone
HistIdle ==
    /\ start_dir_x = 0 /\ start_dir_y = 0 /\ start_plane_x = 0 /\ start_plane_y = 0
    /\ turn = "none" /\ ticks_since = 0

\* No wall hit is being rendered alone
TexIdle == texture_id = "none" /\ glyph = "none"

\* No sweep of the AnimationUpdater is being followed alone
SweepIdle == visited = {} /\ door_before = door /\ trig_before = trig

\* PlayerInfo.__init__: the statistics
NewPlayer ==
    [health |-> 100, max_health |-> 100, sp |-> 10, max_sp |-> 10,
     level |-> 1, exp |-> 0, attack |-> 10, defense |-> 10]

NoCall == [op |-> "none", arg |-> 0, id |-> 0, n |-> 0, left |-> 0, ret |-> FALSE]

\* No inventory is being exercised alone
InvIdle ==
    /\ items = <<>> /\ selected_index = 0 /\ player = NewPlayer
    /\ last_call = NoCall /\ ops = 0

SideIdle == StepIdle /\ HistIdle /\ TexIdle /\ SweepIdle /\ InvIdle

\* No ray is being cast
RayIdle ==
    /\ ray_dir_x = 0 /\ ray_dir_y = 0 /\ map_x = 0 /\ map_y = 0
    /\ side_dist_x = Inf /\ side_dist_y = Inf /\ side = 0
    /\ ray_cell = "none" /\ door_cell = FALSE
    /\ perp_dist = Inf /\ wall_x = Inf /\ ray_steps = 0 /\ ray_pc = "idle"

Init == InitPose /\ InitTiles /\ InitLoop /\ FeedIdle /\ RayIdle /\ SideIdle

Next ==
    \/ BeginTick
    \/ HandleInput
    \/ UpdateAnimations
    \/ Render

Spec == Init /\ [][Next]_vars

\* ------------------------------------------- the tick loop at the door
\* The tick loop with the player standing before the door, where the keys
\* taken are quit, inventory, interact or none. getch returns within its
\* timeout (line 1517) and every statement of the loop body is followed by
\* the next, so each step of a tick is taken once it is enabled; the clock
\* time.time() advances, so ticks with a positive delta_time keep coming.
LiveKeys == {"q", "i", "space", "none"}

InitLive ==
    /\ pos_x2 = 9 /\ pos_y2 = 11
    /\ dir_x = DirUnit /\ dir_y = 0
    /\ plane_x = 0 /\ plane_y = -(PlaneNum * DirUnit)
    /\ target_dir_x = DirUnit /\ target_dir_y = 0
    /\ target_plane_x = 0 /\ target_plane_y = -(PlaneNum * DirUnit)
    /\ rotating = FALSE /\ rotation_progress = 0
    /\ InitTiles /\ InitLoop /\ FeedIdle /\ RayIdle /\ SideIdle

HandleInputLive == HandleInput /\ key' \in LiveKeys

BeginTickPositive == BeginTick /\ delta_time' > 0

NextLive ==
    \/ BeginTick
    \/ HandleInputLive
    \/ UpdateAnimations
    \/ Render

FairLive ==
    /\ SF_vars(BeginTickPositive)
    /\ WF_vars(HandleInputLive)
    /\ WF_vars(UpdateAnimations)
    /\ WF_vars(Render)

SpecLive == InitLive /\ [][NextLive]_vars /\ FairLive

\* ------------------------------------------------ a door exercised alone
\* on_interact and update(dt) called on a door directly, as a test of
\* DoorBehavior does. fed is the delta-time given to update since the last
\* toggle, feeds the number of update calls that gave it, and exact holds
\* while every toggle but the first came after exactly one full duration.
FeedCap == 2 * ProgressUnit
Capped(n) == IF n > FeedCap THEN FeedCap ELSE n

DoorToggle ==
    \E c \in DoorCells :
        /\ ~door[c].door_animating
        /\ toggles < MaxToggles
        /\ door' = [door EXCEPT ![c] = DoorInteract(@)]
        /\ toggles' = toggles + 1
        /\ exact' = (exact /\ (toggles = 0 \/ fed = ProgressUnit))
        /\ fed' = 0 /\ feeds' = 0
        /\ UNCHANGED <<poseVars, trig, loopVars, rayVars, sideVars>>

DoorFeed ==
    \E c \in DoorCells, dt \in 1..ProgressUnit :
        /\ toggles > 0
        /\ door' = [door EXCEPT ![c] = DoorUpdate(@, dt)]
        /\ fed' = Capped(fed + dt)
        /\ feeds' = Capped(feeds + 1)
        /\ UNCHANGED <<toggles, exact>>
        /\ UNCHANGED <<poseVars, trig, loopVars, rayVars, sideVars>>

NextDoor == DoorToggle \/ DoorFeed

SpecDoor == Init /\ [][NextDoor]_vars

\* ------------------------------------------- a trigger stepped on alone
\* on_player_step called on a trigger directly, as StepHandler.visit_cell
\* does for the cell the player stands in. The clock time.time() is the
\* number of the call.
StepOnTrigger ==
    \E c \in TriggerCells :
        LET now == calls[<<3, 3>>] + calls[<<7, 7>>] + 1
            r == on_player_step(trig[c], CanRetrigger(c), now)
        IN  /\ calls[c] < MaxCalls
            /\ trig' = [trig EXCEPT ![c] = r.cell]
            /\ calls' = [calls EXCEPT ![c] = @ + 1]
            /\ fired' = [fired EXCEPT ![c] = IF r.ret THEN @ + 1 ELSE @]
            /\ flashes' = IF r.ret THEN flashes + 1 ELSE flashes
            /\ step_result' = IF r.ret THEN "fired" ELSE "no-op"
            /\ UNCHANGED <<poseVars, door, loopVars, feedVars, rayVars, histVars, texVars>>
            /\ UNCHANGED <<sweepVars, invVars>>

NextTrigger == StepOnTrigger

SpecTrigger == Init /\ [][NextTrigger]_vars

\* ------------------------------------------------------------- compass
\* math.degrees(math.atan2(-dir_y, dir_x)), a value in (-180, 180], by the
\* 45-degree sector it falls in: the sectors are told apart by comparing
\* X = dir_x and Y = -dir_y, which is exact. For Y = 0 and X < 0 the angle is
\* taken as 180 (atan2 of a negative zero gives -180).
AngleIn(dx, dy, sector) ==
    LET X == dx
        Y == -dy
    IN  CASE sector = "45..135"    -> Y > 0 /\ X <= Y /\ X > -Y
          [] sector = "135..180"   -> X < 0 /\ Y >= 0 /\ Y <= -X
          [] sector = "-180..-135" -> X < 0 /\ Y < 0 /\ Y > X
          [] sector = "-135..-45"  -> Y < 0 /\ Y <= X /\ X < -Y

\* Lines 1098-1099 of render_game: the status line's label, by the bucket of
\* the cascade that names it (1: 45 <= angle < 135, 2: 135 <= angle < 225,
\* 3: 225 <= angle < 315, 4: else). The angle is not reduced modulo 360.
StatusDirection(dx, dy) ==
    IF AngleIn(dx, dy, "45..135") THEN 1
    ELSE IF AngleIn(dx, dy, "135..180") THEN 2
    ELSE 4

\* GameRenderer._get_direction_arrow: the arrow, by the bucket of the cascade
\* that names it, for the angle reduced modulo 360
DirectionArrow(dx, dy) ==
    IF AngleIn(dx, dy, "45..135") THEN 1
    ELSE IF AngleIn(dx, dy, "135..180") \/ AngleIn(dx, dy, "-180..-135") THEN 2
    ELSE IF AngleIn(dx, dy, "-135..-45") THEN 3
    ELSE 4

\* ------------------------------------------------ the pose turned alone
\* rotate and update_rotation called on a Raycaster directly, a rotate at
\* any moment of a rotation in flight. In this specification the direction
\* is kept over PoseUnit and the plane over PlaneDen * PoseUnit, which
\* leaves room for PoseExp - RotationTicks + 1 interpolation steps before a
\* rotate.
PoseUnit == RotationTicks ^ PoseExp

\* Raycaster.__init__
InitPoseAlone ==
    /\ pos_x2 = 3 /\ pos_y2 = 3
    /\ dir_x = PoseUnit /\ dir_y = 0
    /\ plane_x = 0 /\ plane_y = -(PlaneNum * PoseUnit)
    /\ target_dir_x = PoseUnit /\ target_dir_y = 0
    /\ target_plane_x = 0 /\ target_plane_y = -(PlaneNum * PoseUnit)
    /\ rotating = FALSE /\ rotation_progress = 0
    /\ InitTiles /\ InitLoop /\ FeedIdle /\ RayIdle /\ SideIdle

PoseRotate ==
    \E clockwise \in BOOLEAN :
        /\ Rotate(clockwise)
        /\ start_dir_x' = dir_x /\ start_dir_y' = dir_y
        /\ start_plane_x' = plane_x /\ start_plane_y' = plane_y
        /\ turn' = IF clockwise THEN "cw" ELSE "ccw"
        /\ ticks_since' = 0
        /\ UNCHANGED <<loopVars, feedVars, rayVars, stepVars, texVars, sweepVars, invVars>>

PoseTick ==
    /\ turn # "none"
    /\ update_rotation
    /\ ticks_since' = IF ticks_since > RotationTicks THEN ticks_since ELSE ticks_since + 1
    /\ UNCHANGED <<start_dir_x, start_dir_y, start_plane_x, start_plane_y, turn>>
    /\ UNCHANGED <<pos_x2, pos_y2>>
    /\ UNCHANGED <<tileVars, loopVars, feedVars, rayVars, stepVars, texVars, sweepVars, invVars>>

NextPose == PoseRotate \/ PoseTick

SpecPose == InitPoseAlone /\ [][NextPose]_vars

\* ---------------------------------------------------------- the ray cast
\* the ray length with 0 in the place of float('inf')
RayLengthZeroSentinel(r) == IF r # 0 THEN [n |-> 1, d |-> Abs(r)] ELSE [n |-> 0, d |-> 1]

\* Lines 1118-1119: abs(1 / r), float('inf') for r = 0
RayLength(r) == IF r # 0 THEN [n |-> 1, d |-> Abs(r)] ELSE Inf

\* Lines 1121-1122
RayStepDir(r) == IF r >= 0 THEN 1 ELSE -1

\* Lines 1124-1132: the distance to the first grid line, pos2 = 2 * pos and
\* m = int(pos), times the ray length len
SideDistInit(r, pos2, m, len) ==
    LET f2 == IF r < 0 THEN pos2 - 2 * m ELSE 2 * m + 2 - pos2
    IN  IF len.d = 0 THEN Inf ELSE RNorm([n |-> f2 * len.n, d |-> 2 * len.d])

\* Lines 1157-1162: the cell grid[x][y] ends the loop
StopsRay(x, y) ==
    \/ CellKind(x, y) = "door"
       /\ (~door[<<x, y>>].door_open \/ door[<<x, y>>].door_animating)
    \/ CellIsWall(x, y)

\* Lines 1157-1159: the cell is kept as door_cell
IsDoorCell(x, y) ==
    CellKind(x, y) = "door"
    /\ (~door[<<x, y>>].door_open \/ door[<<x, y>>].door_animating)

\* The states a door of the tick loop is seen in by a cast
DoorShapes ==
    {NewDoor,
     [NewDoor EXCEPT !.door_animating = TRUE, !.door_animation_type = "opening"],
     [NewDoor EXCEPT !.door_open = TRUE, !.door_animation_progress = ProgressUnit],
     [NewDoor EXCEPT !.door_open = TRUE, !.door_animating = TRUE,
                     !.door_animation_type = "closing"]}

RayDirs == {r \in (-RayMax..RayMax) \X (-RayMax..RayMax) : r # <<0, 0>>}

\* Lines 1114-1137 for a player at the centre of an in-bounds cell, a ray
\* direction that is not (0, 0) and a door in any of its states
InitRay ==
    /\ \E c \in Cells : pos_x2 = 2 * c[1] + 1 /\ pos_y2 = 2 * c[2] + 1
    /\ dir_x = DirUnit /\ dir_y = 0
    /\ plane_x = 0 /\ plane_y = -(PlaneNum * DirUnit)
    /\ target_dir_x = DirUnit /\ target_dir_y = 0
    /\ target_plane_x = 0 /\ target_plane_y = -(PlaneNum * DirUnit)
    /\ rotating = FALSE /\ rotation_progress = 0
    /\ door \in [DoorCells -> DoorShapes]
    /\ trig = [c \in TriggerCells |-> NewTrigger]
    /\ InitLoop /\ FeedIdle /\ SideIdle
    /\ \E r \in RayDirs : ray_dir_x = r[1] /\ ray_dir_y = r[2]
    /\ map_x = pos_x2 \div 2 /\ map_y = pos_y2 \div 2
    /\ side_dist_x = SideDistInit(ray_dir_x, pos_x2, map_x, RayLength(ray_dir_x))
    /\ side_dist_y = SideDistInit(ray_dir_y, pos_y2, map_y, RayLength(ray_dir_y))
    /\ side = 0 /\ ray_cell = "none" /\ door_cell = FALSE
    /\ perp_dist = Inf /\ wall_x = Inf /\ ray_steps = 0 /\ ray_pc = "loop"

\* the loop iteration with the player's position as the cursor of the ray
RayStepMovesPlayer ==
    /\ ray_pc = "loop"
    /\ LET xstep == RLess(side_dist_x, side_dist_y)
           mx == IF xstep THEN map_x + RayStepDir(ray_dir_x) ELSE map_x
           my == IF xstep THEN map_y ELSE map_y + RayStepDir(ray_dir_y)
       IN  /\ side_dist_x' = IF xstep THEN RAdd(side_dist_x, RayLength(ray_dir_x))
                                      ELSE side_dist_x
           /\ side_dist_y' = IF xstep THEN side_dist_y
                                      ELSE RAdd(side_dist_y, RayLength(ray_dir_y))
           /\ map_x' = mx /\ map_y' = my
           /\ side' = IF xstep THEN 0 ELSE 1
           /\ IF ~is_valid_position(mx, my)
              THEN ray_cell' = "boundary_wall" /\ door_cell' = FALSE /\ ray_pc' = "hit"
              ELSE /\ ray_cell' = "grid"
                   /\ door_cell' = IsDoorCell(mx, my)
                   /\ ray_pc' = IF StopsRay(mx, my) THEN "hit" ELSE "loop"
    /\ ray_steps' = ray_steps + 1
    /\ UNCHANGED <<ray_dir_x, ray_dir_y, perp_dist, wall_x>>
    /\ pos_x2' = 2 * map_x' + 1 /\ pos_y2' = 2 * map_y' + 1
    /\ UNCHANGED <<rotVars, tileVars, loopVars, feedVars, sideVars>>

\* Lines 1139-1162: one iteration of the loop
RayStep ==
    /\ ray_pc = "loop"
    /\ LET xstep == RLess(side_dist_x, side_dist_y)
           mx == IF xstep THEN map_x + RayStepDir(ray_dir_x) ELSE map_x
           my == IF xstep THEN map_y ELSE map_y + RayStepDir(ray_dir_y)
       IN  /\ side_dist_x' = IF xstep THEN RAdd(side_dist_x, RayLength(ray_dir_x))
                                      ELSE side_dist_x
           /\ side_dist_y' = IF xstep THEN side_dist_y
                                      ELSE RAdd(side_dist_y, RayLength(ray_dir_y))
           /\ map_x' = mx /\ map_y' = my
           /\ side' = IF xstep THEN 0 ELSE 1
           /\ IF ~is_valid_position(mx, my)
              THEN ray_cell' = "boundary_wall" /\ door_cell' = FALSE /\ ray_pc' = "hit"
              ELSE /\ ray_cell' = "grid"
                   /\ door_cell' = IsDoorCell(mx, my)
                   /\ ray_pc' = IF StopsRay(mx, my) THEN "hit" ELSE "loop"
    /\ ray_steps' = ray_steps + 1
    /\ UNCHANGED <<ray_dir_x, ray_dir_y, perp_dist, wall_x>>
    /\ UNCHANGED <<poseVars, tileVars, loopVars, feedVars, sideVars>>

\* Lines 1168-1172: the perpendicular distance as a signed fraction n / d;
\* d = 0 is a division by zero
PerpDist ==
    IF side = 0
    THEN [n |-> 2 * map_x - pos_x2 + (1 - RayStepDir(ray_dir_x)), d |-> 2 * ray_dir_x]
    ELSE [n |-> 2 * map_y - pos_y2 + (1 - RayStepDir(ray_dir_y)), d |-> 2 * ray_dir_y]

\* Lines 1174-1179: the fractional part of pos + perp_dist * ray_dir on the
\* other axis, for perp_dist = q.n / q.d
WallX(q) ==
    LET pos2 == IF side = 0 THEN pos_y2 ELSE pos_x2
        r == IF side = 0 THEN ray_dir_y ELSE ray_dir_x
        num == pos2 * q.d + 2 * q.n * r
        den == 2 * q.d
        sn == IF den < 0 THEN -num ELSE num
        sd == Abs(den)
    IN  [n |-> sn % sd, d |-> sd]

\* Lines 1164-1190: the result, or the ZeroDivisionError of line 1170 or 1172
RayFinish ==
    /\ ray_pc = "hit"
    /\ perp_dist' = PerpDist
    /\ IF PerpDist.d = 0
       THEN ray_pc' = "error" /\ UNCHANGED wall_x
       ELSE ray_pc' = "done" /\ wall_x' = WallX(PerpDist)
    /\ UNCHANGED <<ray_dir_x, ray_dir_y, map_x, map_y, side_dist_x, side_dist_y,
                   side, ray_cell, door_cell, ray_steps>>
    /\ UNCHANGED <<poseVars, tileVars, loopVars, feedVars, sideVars>>

NextRay == RayStep \/ RayFinish

SpecRay == InitRay /\ [][NextRay]_vars

\* ------------------------------------------------ one sweep followed alone
\* GameMap.accept_visitor(AnimationUpdater(delta_time)) followed cell by
\* cell. accept_visitor goes through the grid row by row; here the cells are
\* visited in any order, each once. A cell without a behaviour is skipped by
\* `if cell.behavior`, so only the cells with a behaviour are followed.
BehaviorCells == {c \in Cells : HasBehavior(c[1], c[2])}

\* The states a door of the tick loop is in when a sweep begins
SweepDoors ==
    DoorShapes
    \cup {[NewDoor EXCEPT !.door_animating = TRUE, !.door_animation_type = "opening",
                          !.door_animation_progress = p] : p \in 0..(ProgressUnit - 1)}
    \cup {[NewDoor EXCEPT !.door_open = TRUE, !.door_animating = TRUE,
                          !.door_animation_type = "closing",
                          !.door_animation_progress = p] : p \in 0..(ProgressUnit - 1)}

\* The states a trigger is in when a sweep begins
SweepTriggers == {NewTrigger, [triggered |-> TRUE, trigger_time |-> 1]}

InitSweep ==
    /\ InitPose
    /\ door \in [DoorCells -> SweepDoors]
    /\ trig \in [TriggerCells -> SweepTriggers]
    /\ running = TRUE /\ inventory_open = FALSE /\ inventory_transition = -1
    /\ delta_time \in Deltas /\ key = "none" /\ pc = "animate"
    /\ FeedIdle /\ RayIdle /\ SideIdle

\* a visit that updates every door, whichever cell is visited
VisitCellUpdatesDoors ==
    \E c \in BehaviorCells \ visited :
        /\ door' = [d \in DoorCells |-> DoorUpdate(door[d], delta_time)]
        /\ trig' = trig
        /\ visited' = visited \cup {c}
        /\ UNCHANGED <<door_before, trig_before>>
        /\ UNCHANGED <<poseVars, loopVars, feedVars, rayVars, stepVars, histVars, texVars, invVars>>

\* AnimationUpdater.visit_cell on a cell with a behaviour:
\* cell.behavior.update(delta_time), which is DoorBehavior.update for a door
\* and `pass` for an interactive floor
VisitCell ==
    \E c \in BehaviorCells \ visited :
        /\ door' = IF c \in DoorCells
                   THEN [door EXCEPT ![c] = DoorUpdate(door[c], delta_time)]
                   ELSE door
        /\ trig' = trig
        /\ visited' = visited \cup {c}
        /\ UNCHANGED <<door_before, trig_before>>
        /\ UNCHANGED <<poseVars, loopVars, feedVars, rayVars, stepVars, histVars, texVars, invVars>>

NextSweep == VisitCell

SpecSweep == InitSweep /\ [][NextSweep]_vars

\* ------------------------------------------------- a hit rendered alone
\* WallRenderer.TEXTURE_LIB, the key f"{texture_id}_{pattern}" as a pair
TEXTURE_LIB ==
    [k \in {"outer_wall", "inner_wall"} \X {"vertical", "horizontal"} |->
        IF k[2] = "vertical" THEN "|" ELSE "-"]

\* The texture identifiers of the CellFactory: those of create_wall in
\* generate_default_map, of create_door and of MapCell's default
TextureIds == {"outer_wall", "inner_wall", "door", "floor"}

\* In this specification the player's direction is kept over RenderUnit,
\* which has a half.
RenderUnit == 2 * DirUnit

\* Lines 126-135 and 162-171: the product of the player's direction with the
\* normal of the face that was hit, the normal taken from the side and the
\* sign of the ray on that axis
SurfaceDot(sd, rx, ry, px, py) ==
    LET normal_x == IF sd = 0 THEN (IF rx >= 0 THEN 1 ELSE -1) ELSE 0
        normal_y == IF sd = 0 THEN 0 ELSE (IF ry >= 0 THEN 1 ELSE -1)
    IN  px * normal_x + py * normal_y

\* WallRenderer.render_3d: the glyph, or the KeyError of the lookup
WallRender3d(tex, sd, rx, ry, px, py) ==
    LET dot_product == SurfaceDot(sd, rx, ry, px, py)
        pattern == IF 2 * Abs(dot_product) > RenderUnit THEN "horizontal" ELSE "vertical"
    IN  IF <<tex, pattern>> \in DOMAIN TEXTURE_LIB
        THEN TEXTURE_LIB[<<tex, pattern>>]
        ELSE "KeyError"

\* context.wall_x < frame_thickness or context.wall_x > 1 - frame_thickness,
\* frame_thickness 0.15 from the distance 1.5 on and 0.25 nearer
InFrameBand(dist, wx) ==
    LET frame_thickness == IF 2 * dist.n >= 3 * dist.d THEN 15 ELSE 25
    IN  \/ 100 * wx.n < frame_thickness * wx.d
        \/ 100 * wx.n > (100 - frame_thickness) * wx.d

\* render_3d with the threshold of an opening door for a closing one too
DoorRender3dAlwaysOpening(d, sd, rx, ry, px, py, dist, wx) ==
    LET dot_product == SurfaceDot(sd, rx, ry, px, py)
        door_direction == IF 2 * Abs(dot_product) < RenderUnit
                          THEN "vertical" ELSE "horizontal"
        leaf == IF door_direction = "vertical" THEN "|" ELSE "-"
        t == d.door_animation_progress
    IN  IF InFrameBand(dist, wx) THEN "frame"
        ELSE IF d.door_animating
        THEN IF \/ 2 * ProgressUnit * wx.n < (ProgressUnit - t) * wx.d
                \/ 2 * ProgressUnit * wx.n > (ProgressUnit + t) * wx.d
             THEN leaf
             ELSE " "
        ELSE IF d.door_open THEN " " ELSE leaf

\* DoorRenderer.render_3d for the door behaviour d: the glyph, "frame" for
\* the frame's block. threshold is t / (2 * ProgressUnit).
DoorRender3d(d, sd, rx, ry, px, py, dist, wx) ==
    LET dot_product == SurfaceDot(sd, rx, ry, px, py)
        door_direction == IF 2 * Abs(dot_product) < RenderUnit
                          THEN "vertical" ELSE "horizontal"
        leaf == IF door_direction = "vertical" THEN "|" ELSE "-"
        t == IF d.door_animation_type = "opening"
             THEN d.door_animation_progress
             ELSE ProgressUnit - d.door_animation_progress
    IN  IF InFrameBand(dist, wx) THEN "frame"
        ELSE IF d.door_animating
        THEN IF \/ 2 * ProgressUnit * wx.n < (ProgressUnit - t) * wx.d
                \/ 2 * ProgressUnit * wx.n > (ProgressUnit + t) * wx.d
             THEN leaf
             ELSE " "
        ELSE IF d.door_open THEN " " ELSE leaf

\* The vector (x, y) turned by 90 degrees in the sense t
TurnedX(x, y, t) == IF t = "cw" THEN y ELSE -y
TurnedY(x, y, t) == IF t = "cw" THEN -x ELSE x

\* The value update_rotation gives a component v on its p-th step towards t
RECURSIVE InFlight(_, _, _)
InFlight(v, t, p) == IF p = 0 THEN v ELSE Lerp(InFlight(v, t, p - 1), t, p)

\* The player directions at rest and on the steps of a rotation begun at rest
RestDirs == {<<DirUnit, 0>>, <<-DirUnit, 0>>, <<0, DirUnit>>, <<0, -DirUnit>>}
PlayerDirs ==
    {<<InFlight(d[1], TurnedX(d[1], d[2], t), p), InFlight(d[2], TurnedY(d[1], d[2], t), p)>> :
        d \in RestDirs, t \in {"cw", "ccw"}, p \in 0..(RotationTicks - 1)}

\* The player directions of a hit that is rendered: those at rest and in
\* flight, and the four with both components one half, where the product
\* with either normal is exactly 0.5
BoundaryDirs == {<<sx * DirUnit, sy * DirUnit>> : sx \in {1, -1}, sy \in {1, -1}}
RenderDirs == {<<2 * d[1], 2 * d[2]>> : d \in PlayerDirs} \cup BoundaryDirs

\* The ray directions by the signs of their components, which is all that
\* render_3d reads of them
DoorRayDirs == {r \in RayDirs : Abs(r[1]) <= 1 /\ Abs(r[2]) <= 1}

\* context.distance on either side of 1.5: 1 and 1.5
Distances == {[n |-> 1, d |-> 1], [n |-> 3, d |-> 2]}

\* context.wall_x: the fractions of WallSteps in [0, 1)
WallXs == {[n |-> k, d |-> WallSteps] : k \in 0..(WallSteps - 1)}

\* RaycastResult.render of a hit, for a hit side, a ray direction and a
\* player direction: either on a wall cell made by
\* CellFactory.create_wall(texture_id), or on the door cell, for a door in
\* any state, a wall_x and a distance
InitRender ==
    /\ pos_x2 = 3 /\ pos_y2 = 3
    /\ \E d \in RenderDirs : dir_x = d[1] /\ dir_y = d[2]
    /\ plane_x = 0 /\ plane_y = -(PlaneNum * RenderUnit)
    /\ target_dir_x = RenderUnit /\ target_dir_y = 0
    /\ target_plane_x = 0 /\ target_plane_y = -(PlaneNum * RenderUnit)
    /\ rotating = FALSE /\ rotation_progress = 0
    /\ trig = [c \in TriggerCells |-> NewTrigger]
    /\ InitLoop /\ FeedIdle /\ StepIdle /\ HistIdle
    /\ side \in {0, 1}
    /\ map_x = 0 /\ map_y = 0 /\ side_dist_x = Inf /\ side_dist_y = Inf
    /\ ray_cell = "grid" /\ ray_steps = 0 /\ ray_pc = "idle"
    /\ \/ /\ door_cell = FALSE
          /\ texture_id \in TextureIds
          /\ door = [c \in DoorCells |-> NewDoor]
          /\ \E r \in RayDirs : ray_dir_x = r[1] /\ ray_dir_y = r[2]
          /\ perp_dist = Inf /\ wall_x = Inf
       \/ /\ door_cell = TRUE
          /\ texture_id = "door"
          /\ door \in [DoorCells -> SweepDoors]
          /\ \E r \in DoorRayDirs : ray_dir_x = r[1] /\ ray_dir_y = r[2]
          /\ perp_dist \in Distances /\ wall_x \in WallXs
    /\ SweepIdle /\ InvIdle
    /\ glyph = "none"

\* The door that was hit
HitDoor == door[CHOOSE c \in DoorCells : TRUE]

\* render on a wall cell: WallRenderer.render_3d
RenderWall ==
    /\ ~door_cell
    /\ glyph = "none"
    /\ glyph' = WallRender3d(texture_id, side, ray_dir_x, ray_dir_y, dir_x, dir_y)
    /\ UNCHANGED texture_id
    /\ UNCHANGED <<poseVars, tileVars, loopVars, feedVars, rayVars, stepVars, histVars, sweepVars, invVars>>

\* render on the door cell: DoorRenderer.render_3d
RenderDoor ==
    /\ door_cell
    /\ glyph = "none"
    /\ glyph' = DoorRender3d(HitDoor, side, ray_dir_x, ray_dir_y, dir_x, dir_y,
                             perp_dist, wall_x)
    /\ UNCHANGED texture_id
    /\ UNCHANGED <<poseVars, tileVars, loopVars, feedVars, rayVars, stepVars, histVars, sweepVars, invVars>>

NextRender == RenderWall \/ RenderDoor

SpecRender == InitRender /\ [][NextRender]_vars

\* ------------------------------------------------- the pose moved alone
\* move called on a Raycaster directly, from the centre of any in-bounds
\* cell (teleport_player puts the player at x + 0.5, y + 0.5 for the x, y
\* of an item), for a player direction at rest or in flight and a door in
\* any of its states
InitMove ==
    /\ \E c \in Cells : pos_x2 = 2 * c[1] + 1 /\ pos_y2 = 2 * c[2] + 1
    /\ \E d \in PlayerDirs : dir_x = d[1] /\ dir_y = d[2]
    /\ plane_x = 0 /\ plane_y = -(PlaneNum * DirUnit)
    /\ target_dir_x = DirUnit /\ target_dir_y = 0
    /\ target_plane_x = 0 /\ target_plane_y = -(PlaneNum * DirUnit)
    /\ rotating = FALSE /\ rotation_progress = 0
    /\ door \in [DoorCells -> DoorShapes]
    /\ trig = [c \in TriggerCells |-> NewTrigger]
    /\ InitLoop /\ FeedIdle /\ RayIdle /\ SideIdle

MoveStep ==
    \E forward \in BOOLEAN :
        /\ Move(forward)
        /\ UNCHANGED <<loopVars, feedVars, rayVars, sideVars>>

NextMove == MoveStep

SpecMove == InitMove /\ [][NextMove]_vars

\* ---------------------------------------------------------- the player
Min(a, b) == IF a < b THEN a ELSE b
Max(a, b) == IF a > b THEN a ELSE b

\* PlayerInfo._exp_required_for_level for the levels 1..100:
\* int(100 * (level - 1) ** 1.5), 0 for level 1, as Python computes it
ExpRequired ==
    <<
      0, 100, 282, 519, 800, 1118, 1469, 1852, 2262, 2700, 3162, 3648, 4156,
      4687, 5238, 5809, 6400, 7009, 7636, 8281, 8944, 9623, 10318, 11030,
      11757, 12500, 13257, 14029, 14816, 15616, 16431, 17260, 18101, 18957,
      19825, 20706, 21600, 22506, 23424, 24355, 25298, 26252, 27219, 28196,
      29186, 30186, 31198, 32221, 33255, 34300, 35355, 36421, 37497, 38584,
      39681, 40789, 41906, 43034, 44171, 45318, 46475, 47642, 48818, 50004,
      51200, 52404, 53618, 54841, 56074, 57315, 58566, 59825, 61094, 62371,
      63657, 64951, 66255, 67567, 68887, 70216, 71554, 72900, 74254, 75616,
      76987, 78366, 79753, 81148, 82551, 83962, 85381, 86808, 88243, 89685,
      91136, 92594, 94060, 95533, 97015, 98503
    >>

\* PlayerInfo._level_up
LevelUp(pl) ==
    [pl EXCEPT !.level = @ + 1,
               !.max_health = @ + 5, !.health = pl.max_health + 5,
               !.max_sp = @ + 1, !.sp = pl.max_sp + 1,
               !.attack = @ + 1, !.defense = @ + 1]

\* PlayerInfo._level_down
LevelDown(pl) ==
    LET mh == Max(50, pl.max_health - 5)
        ms == Max(5, pl.max_sp - 1)
    IN  [pl EXCEPT !.level = @ - 1,
                   !.max_health = mh, !.health = Min(pl.health, mh),
                   !.max_sp = ms, !.sp = Min(pl.sp, ms),
                   !.attack = Max(5, @ - 1), !.defense = Max(5, @ - 1),
                   !.exp = ExpRequired[pl.level - 1]]

\* n passes of the loop of PlayerInfo.change_level, step 1 or -1, as the
\* first half of them followed by the rest. In one pass the level moves
\* unless it is at its end, where the loop breaks; once the loop has broken
\* no later pass is made
RECURSIVE LevelSteps(_, _, _)
LevelSteps(pl, step, n) ==
    IF n = 0 THEN pl
    ELSE IF n = 1
    THEN IF step > 0
         THEN IF pl.level >= 100 THEN pl ELSE LevelUp(pl)
         ELSE IF pl.level <= 1 THEN pl ELSE LevelDown(pl)
    ELSE LET half == LevelSteps(pl, step, n \div 2)
         IN  IF (step > 0 /\ half.level >= 100) \/ (step < 0 /\ half.level <= 1)
             THEN half
             ELSE LevelSteps(half, step, n - (n \div 2))

\* PlayerInfo.change_level
change_level(pl, delta) ==
    IF delta = 0 THEN pl
    ELSE LevelSteps(pl, IF delta > 0 THEN 1 ELSE -1, Abs(delta))

\* take_damage without the floor at 0
take_damage_unfloored(pl, amount) == [pl EXCEPT !.health = @ - amount]

\* PlayerInfo.add_exp: every pass of its while loop is change_level(1), and
\* it makes as many passes as there are levels above the player's whose
\* requirement the exp meets, the requirements growing with the level
add_exp(pl, amount) ==
    LET with_exp == [pl EXCEPT !.exp = @ + amount]
        due == Cardinality({l \in (pl.level + 1)..100 : with_exp.exp >= ExpRequired[l]})
    IN  LevelSteps(with_exp, 1, due)

\* PlayerInfo.take_damage
take_damage(pl, amount) == [pl EXCEPT !.health = Max(0, @ - amount)]

\* PlayerInfo.heal
heal(pl, amount) == [pl EXCEPT !.health = Min(pl.max_health, @ + amount)]

\* PlayerInfo.use_sp: the player afterwards; the call returns sp >= amount
use_sp(pl, amount) == IF pl.sp >= amount THEN [pl EXCEPT !.sp = @ - amount] ELSE pl

\* PlayerInfo.restore_sp
restore_sp(pl, amount) == [pl EXCEPT !.sp = Min(pl.max_sp, @ + amount)]

\* ------------------------------------------------------- the inventory
\* The item definitions ItemFactory.load_definitions reads from item.json,
\* which is data outside the source: a catalogue for the eight ids
\* PlayerInfo._init_default_items creates (potions, the infinite bread, sword,
\* armour, ring, ore, herb) and a ninth, a second weapon, with every
\* item_type, usage_type, slot and numeric effect_type the code
\* distinguishes. Effects are pairs of effect_type and value.
ItemDefinitions ==
    LET Effect(t, v) == [effect_type |-> t, value |-> v]
        Definition(type, stack, slot, usage, effects) ==
            [item_type |-> type, max_stack |-> stack, slot |-> slot,
             usage_type |-> usage, effects |-> effects]
    IN
    <<Definition("consumable", 3, "None", "single", <<Effect("health", 30)>>),
      Definition("consumable", 3, "None", "single", <<Effect("sp", 5), Effect("exp", 60)>>),
      Definition("consumable", 1, "None", "infinite", <<Effect("health", 10)>>),
      Definition("equipment", 1, "weapon", "single", <<Effect("attack", 5)>>),
      Definition("equipment", 1, "armor", "single",
                 <<Effect("defense", 3), Effect("max_health", 20)>>),
      Definition("equipment", 1, "accessory", "single",
                 <<Effect("sp", 5), Effect("health", 10)>>),
      Definition("material", 10, "None", "single", <<>>),
      Definition("material", 10, "None", "single", <<>>),
      Definition("equipment", 1, "weapon", "single",
                 <<Effect("attack", 8), Effect("max_sp", 2)>>)>>

\* ItemFactory.create_item
create_item(item_id, count) == [id |-> item_id, count |-> count, equipped |-> FALSE]

IsInfinite(it) ==
    /\ ItemDefinitions[it.id].item_type = "consumable"
    /\ ItemDefinitions[it.id].usage_type = "infinite"

\* The stacking loop of Inventory.add_item from the i-th item on, n units of
\* the passed item left: the items afterwards, the passed item's count and
\* whether the loop returned True
RECURSIVE StackLoop(_, _, _, _)
StackLoop(its, item_id, n, i) ==
    IF i > Len(its) THEN [items |-> its, count |-> n, returned |-> FALSE]
    ELSE LET existing == its[i]
             max_stack == ItemDefinitions[existing.id].max_stack
             stack_space == max_stack - existing.count
         IN  IF existing.id = item_id /\ existing.count < max_stack
             THEN IF n <= stack_space
                  THEN [items |-> [its EXCEPT ![i].count = @ + n],
                        count |-> n, returned |-> TRUE]
                  ELSE StackLoop([its EXCEPT ![i].count = max_stack],
                                 item_id, n - stack_space, i + 1)
             ELSE StackLoop(its, item_id, n, i + 1)

\* Inventory.add_item: the items afterwards, the count of the passed item
\* afterwards and the value returned
add_item(its, item, capacity) ==
    LET r == StackLoop(its, item.id, item.count, 1)
    IN  IF r.returned THEN [items |-> r.items, count |-> r.count, ret |-> TRUE]
        ELSE IF Len(r.items) < capacity
        THEN [items |-> Append(r.items, [item EXCEPT !.count = r.count]),
              count |-> r.count, ret |-> TRUE]
        ELSE [items |-> r.items, count |-> r.count, ret |-> FALSE]

\* The list its without its i-th element (list.pop)
Pop(its, i) == [k \in 1..(Len(its) - 1) |-> IF k < i THEN its[k] ELSE its[k + 1]]

\* remove_item without the test for an infinite consumable
remove_item_any(its, sel, index, count) ==
    IF 0 <= index /\ index < Len(its)
    THEN LET item == its[index + 1]
         IN  IF count >= item.count
             THEN LET rest == Pop(its, index + 1)
                  IN  [items |-> rest,
                       selected_index |-> IF sel >= Len(rest)
                                          THEN Max(0, Len(rest) - 1) ELSE sel]
             ELSE [items |-> [its EXCEPT ![index + 1].count = @ - count],
                   selected_index |-> sel]
    ELSE [items |-> its, selected_index |-> sel]

\* Inventory.remove_item for the 0-based index: the items and the
\* selected_index afterwards
remove_item(its, sel, index, count) ==
    IF 0 <= index /\ index < Len(its)
    THEN LET item == its[index + 1]
         IN  IF IsInfinite(item)
             THEN [items |-> its, selected_index |-> sel]
             ELSE IF count >= item.count
             THEN LET rest == Pop(its, index + 1)
                  IN  [items |-> rest,
                       selected_index |-> IF sel >= Len(rest)
                                          THEN Max(0, Len(rest) - 1) ELSE sel]
             ELSE [items |-> [its EXCEPT ![index + 1].count = @ - count],
                   selected_index |-> sel]
    ELSE [items |-> its, selected_index |-> sel]

\* The effects of a consumable from the i-th on applied to the player, as
\* the loop of _use_consumable applies the numeric ones
RECURSIVE ApplyEffects(_, _, _)
ApplyEffects(pl, effects, i) ==
    IF i > Len(effects) THEN pl
    ELSE LET e == effects[i]
             after ==
                CASE e.effect_type = "health" -> heal(pl, e.value)
                  [] e.effect_type = "sp" -> restore_sp(pl, e.value)
                  [] e.effect_type = "exp" -> add_exp(pl, e.value)
                  [] e.effect_type = "attack" -> [pl EXCEPT !.attack = @ + e.value]
                  [] e.effect_type = "defense" -> [pl EXCEPT !.defense = @ + e.value]
                  [] e.effect_type = "max_health" ->
                        [pl EXCEPT !.max_health = @ + e.value,
                                   !.health = Min(pl.health, pl.max_health + e.value)]
                  [] e.effect_type = "max_sp" ->
                        [pl EXCEPT !.max_sp = @ + e.value,
                                   !.sp = Min(pl.sp, pl.max_sp + e.value)]
                  [] OTHER -> pl
         IN  ApplyEffects(after, effects, i + 1)

\* Inventory(capacity) with a PlayerInfo, exercised alone
InitInv ==
    /\ InitPose /\ InitTiles /\ InitLoop /\ FeedIdle /\ RayIdle
    /\ StepIdle /\ HistIdle /\ TexIdle /\ SweepIdle
    /\ items = <<>> /\ selected_index = 0 /\ player = NewPlayer
    /\ last_call = NoCall /\ ops = 0

InvFrame == UNCHANGED <<poseVars, tileVars, loopVars, feedVars, rayVars,
                        stepVars, histVars, texVars, sweepVars>>

\* The ids and counts of the items passed to add_item
AddIds == {1, 3, 7}
AddCounts == {1, 2}

\* add_item(ItemFactory.create_item(id, n))
AddItem ==
    \E item_id \in AddIds, n \in AddCounts :
        LET r == add_item(items, create_item(item_id, n), InvCapacity)
        IN  /\ ops < MaxOps
            /\ items' = r.items
            /\ last_call' = [op |-> "add", arg |-> 0, id |-> item_id, n |-> n,
                             left |-> r.count, ret |-> r.ret]
            /\ ops' = ops + 1
            /\ UNCHANGED <<selected_index, player>>
            /\ InvFrame

\* remove_item(index, count), for the indices of the list and one past it
RemoveItem ==
    \E index \in 0..Len(items), count \in AddCounts :
        LET r == remove_item(items, selected_index, index, count)
        IN  /\ ops < MaxOps
            /\ items' = r.items
            /\ selected_index' = r.selected_index
            /\ last_call' = [op |-> "remove", arg |-> index,
                             id |-> IF index < Len(items) THEN items[index + 1].id ELSE 0,
                             n |-> count, left |-> 0, ret |-> index < Len(items)]
            /\ ops' = ops + 1
            /\ UNCHANGED player
            /\ InvFrame

\* RPG._use_consumable(item) for a consumable of the inventory, as the
\* space key of the inventory screen calls it
UseConsumable ==
    \E index \in 0..(Len(items) - 1) :
        LET item == items[index + 1]
            def == ItemDefinitions[item.id]
            r == IF def.usage_type = "single"
                 THEN IF item.count > 1
                      THEN [items |-> [items EXCEPT ![index + 1].count = @ - 1],
                            selected_index |-> selected_index]
                      ELSE remove_item(items, selected_index, index, 1)
                 ELSE [items |-> items, selected_index |-> selected_index]
        IN  /\ ops < MaxOps
            /\ def.item_type = "consumable"
            /\ player' = ApplyEffects(player, def.effects, 1)
            /\ items' = r.items
            /\ selected_index' = r.selected_index
            /\ last_call' = [op |-> "use", arg |-> index, id |-> item.id,
                             n |-> 1, left |-> 0, ret |-> TRUE]
            /\ ops' = ops + 1
            /\ InvFrame

NextInv == AddItem \/ RemoveItem \/ UseConsumable

SpecInv == InitInv /\ [][NextInv]_vars

\* ------------------------------------------------------- the equipment
\* Inventory._apply_equipment_effects from the i-th effect on, multiplier 1
\* or -1
RECURSIVE apply_equipment_effects(_, _, _, _)
apply_equipment_effects(pl, effects, multiplier, i) ==
    IF i > Len(effects) THEN pl
    ELSE LET e == effects[i]
             after ==
                CASE e.effect_type \in {"health", "max_health"} ->
                        [pl EXCEPT !.max_health = @ + e.value * multiplier,
                                   !.health = Min(pl.health, pl.max_health + e.value * multiplier)]
                  [] e.effect_type \in {"sp", "max_sp"} ->
                        [pl EXCEPT !.max_sp = @ + e.value * multiplier,
                                   !.sp = Min(pl.sp, pl.max_sp + e.value * multiplier)]
                  [] e.effect_type = "attack" -> [pl EXCEPT !.attack = @ + e.value * multiplier]
                  [] e.effect_type = "defense" -> [pl EXCEPT !.defense = @ + e.value * multiplier]
                  [] OTHER -> pl
         IN  apply_equipment_effects(after, effects, multiplier, i + 1)

\* equip_item that leaves the effects of the displaced items in place
RECURSIVE UnequipSlotKeepingEffects(_, _, _, _)
UnequipSlotKeepingEffects(its, pl, slot, i) ==
    IF i > Len(its) THEN [items |-> its, player |-> pl]
    ELSE IF its[i].equipped /\ ItemDefinitions[its[i].id].slot = slot
    THEN UnequipSlotKeepingEffects([its EXCEPT ![i].equipped = FALSE], pl, slot, i + 1)
    ELSE UnequipSlotKeepingEffects(its, pl, slot, i + 1)

\* The loop of equip_item over the items from the i-th on: every equipped
\* item of the slot is unequipped and its effects are taken back
RECURSIVE UnequipSlot(_, _, _, _)
UnequipSlot(its, pl, slot, i) ==
    IF i > Len(its) THEN [items |-> its, player |-> pl]
    ELSE IF its[i].equipped /\ ItemDefinitions[its[i].id].slot = slot
    THEN UnequipSlot([its EXCEPT ![i].equipped = FALSE],
                     apply_equipment_effects(pl, ItemDefinitions[its[i].id].effects, -1, 1),
                     slot, i + 1)
    ELSE UnequipSlot(its, pl, slot, i + 1)

\* Inventory.equip_item for the item at the 1-based position i
equip_item(its, pl, i) ==
    LET def == ItemDefinitions[its[i].id]
    IN  IF def.item_type # "equipment" \/ def.slot = "None"
        THEN [items |-> its, player |-> pl]
        ELSE LET r == UnequipSlot(its, pl, def.slot, 1)
             IN  [items |-> [r.items EXCEPT ![i].equipped = TRUE],
                  player |-> apply_equipment_effects(r.player, def.effects, 1, 1)]

\* Inventory.unequip_item for the item at the 1-based position i
unequip_item(its, pl, i) ==
    IF ~its[i].equipped THEN [items |-> its, player |-> pl]
    ELSE [items |-> [its EXCEPT ![i].equipped = FALSE],
          player |-> apply_equipment_effects(pl, ItemDefinitions[its[i].id].effects, -1, 1)]

\* Inventory(capacity=12) of PlayerInfo.__init__
PlayerCapacity == 12

\* The ids and counts PlayerInfo._init_default_items creates, in its order
DefaultCreated == <<<<1, 3>>, <<2, 2>>, <<3, 1>>, <<4, 1>>, <<5, 1>>, <<6, 1>>,
                    <<7, 5>>, <<8, 8>>>>

\* PlayerInfo._init_default_items: the items after its first k add_item calls
RECURSIVE DefaultItems(_)
DefaultItems(k) ==
    IF k = 0 THEN <<>>
    ELSE add_item(DefaultItems(k - 1),
                  create_item(DefaultCreated[k][1], DefaultCreated[k][2]),
                  PlayerCapacity).items

\* The inventory of a new player, and a second weapon added to it
InitEquip ==
    /\ InitPose /\ InitTiles /\ InitLoop /\ FeedIdle /\ RayIdle
    /\ StepIdle /\ HistIdle /\ TexIdle /\ SweepIdle
    /\ items = add_item(DefaultItems(Len(DefaultCreated)), create_item(9, 1),
                        PlayerCapacity).items
    /\ selected_index = 0 /\ player = NewPlayer
    /\ last_call = NoCall /\ ops = 0

\* equip_item(item) for an item of the inventory
EquipItem ==
    \E i \in 1..Len(items) :
        LET r == equip_item(items, player, i)
        IN  /\ ops < MaxOps
            /\ items' = r.items
            /\ player' = r.player
            /\ last_call' = [op |-> "equip", arg |-> i - 1, id |-> items[i].id,
                             n |-> 1, left |-> 0, ret |-> r.items[i].equipped]
            /\ ops' = ops + 1
            /\ UNCHANGED selected_index
            /\ InvFrame

\* unequip_item(item) for an item of the inventory
UnequipItem ==
    \E i \in 1..Len(items) :
        LET r == unequip_item(items, player, i)
        IN  /\ ops < MaxOps
            /\ items' = r.items
            /\ player' = r.player
            /\ last_call' = [op |-> "unequip", arg |-> i - 1, id |-> items[i].id,
                             n |-> 1, left |-> 0, ret |-> items[i].equipped]
            /\ ops' = ops + 1
            /\ UNCHANGED selected_index
            /\ InvFrame

NextEquip == EquipItem \/ UnequipItem

SpecEquip == InitEquip /\ [][NextEquip]_vars

\* The sum of one numeric field's equipment effects over the equipped items
\* from the i-th on; types is the set of effect types that feed the field
RECURSIVE EffectSum(_, _, _)
EffectSum(effects, types, k) ==
    IF k > Len(effects) THEN 0
    ELSE (IF effects[k].effect_type \in types THEN effects[k].value ELSE 0)
         + EffectSum(effects, types, k + 1)

RECURSIVE EquippedSum(_, _, _)
EquippedSum(its, types, i) ==
    IF i > Len(its) THEN 0
    ELSE (IF its[i].equipped
          THEN EffectSum(ItemDefinitions[its[i].id].effects, types, 1) ELSE 0)
         + EquippedSum(its, types, i + 1)

\* ---------------------------------------------------- the player alone
\* The amounts passed to take_damage, heal, use_sp and restore_sp, the
\* amounts passed to add_exp and the deltas passed to change_level
Amounts == {0, 3, 1000}
ExpAmounts == {0, 120, 100000}
LevelDeltas == {-1, 1, 99}

InitPlayer ==
    /\ InitPose /\ InitTiles /\ InitLoop /\ FeedIdle /\ RayIdle
    /\ StepIdle /\ HistIdle /\ TexIdle /\ SweepIdle
    /\ items = DefaultItems(Len(DefaultCreated))
    /\ selected_index = 0 /\ player = NewPlayer
    /\ last_call = NoCall /\ ops = 0

\* One call of a PlayerInfo method that takes an amount
PlayerCall(op, amount, after) ==
    /\ ops < MaxOps
    /\ player' = after
    /\ last_call' = [op |-> op, arg |-> amount, id |-> 0, n |-> 0, left |-> 0,
                     ret |-> TRUE]
    /\ ops' = ops + 1
    /\ UNCHANGED <<items, selected_index>>
    /\ InvFrame

AddExp == \E amount \in ExpAmounts : PlayerCall("add_exp", amount, add_exp(player, amount))

ChangeLevel == \E delta \in LevelDeltas : PlayerCall("change_level", delta, change_level(player, delta))

TakeDamage == \E amount \in Amounts : PlayerCall("take_damage", amount, take_damage(player, amount))

Heal == \E amount \in Amounts : PlayerCall("heal", amount, heal(player, amount))

UseSp == \E amount \in Amounts : PlayerCall("use_sp", amount, use_sp(player, amount))

RestoreSp == \E amount \in Amounts : PlayerCall("restore_sp", amount, restore_sp(player, amount))

NextPlayer ==
    \/ AddExp \/ ChangeLevel \/ TakeDamage \/ Heal \/ UseSp \/ RestoreSp
    \/ EquipItem \/ UnequipItem

SpecPlayer == InitPlayer /\ [][NextPlayer]_vars

\* ------------------------------------------------- claims: the tick loop
\* The cell int(pos_x), int(pos_y) the player stands in
PlayerCell == <<pos_x2 \div 2, pos_y2 \div 2>>

\* The branch of line 1480: the game view takes the key
GameView == ~inventory_open /\ inventory_transition < 0

FullyOpen(d) == d.door_open /\ ~d.door_animating
ClosedDoor(d) == ~d.door_open /\ ~d.door_animating

\* C1: a door is passable for move iff it is in the fully-open terminal
\* state; a door that is animating, opening or closing, is impassable.
C1_PassableIffFullyOpen ==
    \A c \in DoorCells : (~is_wall(c[1], c[2])) <=> FullyOpen(door[c])

\* C2: an accepted move whose destination is a Trigger tile leaves that
\* tile triggered, its on_player_step being part of the move.
C2_StepFiresTrigger ==
    [][(/\ pc = "input" /\ key' \in {"w", "s"}
        /\ PlayerCell' # PlayerCell
        /\ PlayerCell' \in TriggerCells)
       => trig'[PlayerCell'].triggered]_vars

\* The cell a move with key k is directed at
MoveTarget(k) ==
    <<MoveCellX(IF k = "w" THEN 1 ELSE -1), MoveCellY(IF k = "w" THEN 1 ELSE -1)>>

\* C3: after a move, forward or backward, the player's cell is passable, and
\* a move directed at a closed door leaves the position unchanged.
C3_MoveEndsPassable ==
    [][(pc = "input" /\ GameView /\ key' \in {"w", "s"})
       => /\ (~is_wall(PlayerCell[1], PlayerCell[2]))'
          /\ (MoveTarget(key') \in DoorCells /\ ClosedDoor(door[MoveTarget(key')])
                => UNCHANGED <<pos_x2, pos_y2>>)]_vars

\* The four states of the door cycle
DoorState(d) ==
    IF d.door_animating
    THEN (IF d.door_animation_type = "opening" THEN "Opening" ELSE "Closing")
    ELSE (IF d.door_open THEN "Open" ELSE "Closed")

\* C7: every change of a door is one of: interact on a non-animating door
\* (animating, progress 0, Opening if closed and Closing if open, open kept);
\* progress advancing below 1; progress reaching 1 (Opening becomes Open,
\* Closing becomes Closed). So the states follow the cycle
\* Closed -> Opening -> Open -> Closing -> Closed.
C7_DoorCycle ==
    [][\A c \in DoorCells :
        LET d == door[c]
            e == door'[c]
        IN  \/ e = d
            \/ /\ ~d.door_animating
               /\ e.door_animating /\ e.door_animation_progress = 0
               /\ e.door_open = d.door_open
               /\ e.door_animation_type = (IF d.door_open THEN "closing" ELSE "opening")
               /\ <<DoorState(d), DoorState(e)>> \in {<<"Closed", "Opening">>, <<"Open", "Closing">>}
            \/ /\ d.door_animating /\ e.door_animating
               /\ e.door_animation_progress > d.door_animation_progress
               /\ e.door_animation_progress < ProgressUnit
               /\ DoorState(e) = DoorState(d) /\ e.door_open = d.door_open
            \/ /\ d.door_animating /\ ~e.door_animating
               /\ e.door_animation_progress >= ProgressUnit
               /\ <<DoorState(d), DoorState(e)>> \in {<<"Opening", "Open">>, <<"Closing", "Closed">>}]_vars

\* A door has gone round the whole cycle: it is closed again after a swing.
C7_Witness ==
    \E c \in DoorCells :
        ClosedDoor(door[c]) /\ door[c].door_animation_progress >= ProgressUnit

\* C8: an interact request on a door that is animating changes nothing of
\* the door: open, animating, direction and progress stay as they were.
C8_InteractWhileAnimatingNoOp ==
    [][(/\ pc = "input" /\ GameView /\ key' = "space"
        /\ <<FrontX, FrontY>> \in DoorCells
        /\ door[<<FrontX, FrontY>>].door_animating)
       => door' = door]_vars

\* The space key was taken with an animating door in front, part-way through
\* its swing, and the door is in that same state.
C8_Witness ==
    /\ pc = "animate" /\ key = "space" /\ GameView
    /\ <<FrontX, FrontY>> \in DoorCells
    /\ door[<<FrontX, FrontY>>].door_animating
    /\ door[<<FrontX, FrontY>>].door_animation_progress > 0

\* C10: a door that is animating has 0 <= progress < 1.
C10_AnimatingProgressBelowOne ==
    \A c \in DoorCells :
        door[c].door_animating
            => /\ 0 <= door[c].door_animation_progress
               /\ door[c].door_animation_progress < ProgressUnit

\* A door is part-way through its swing after an update.
C10_Witness ==
    \E c \in DoorCells :
        /\ pc = "render"
        /\ door[c].door_animating /\ door[c].door_animation_progress > 0

\* C12 as stated: within a tick the animations are advanced first and the
\* input is polled and applied afterwards, so that when the animations are
\* about to be advanced no key has been taken in that tick.
C12_AnimationsBeforeInput == pc = "animate" => key = "none"

\* C12, amended: within a tick only the inventory transition is advanced
\* before the input; one key is polled and its action applied, then the
\* rotation step and the update of every cell are made, then the frame is
\* drawn. An action applied in a tick is followed by that tick's animation
\* step before its render: a rotation begun in a tick has made its first
\* step when the frame of that tick is drawn.
C12_InputThenAnimationsThenRender ==
    [][/\ (pc = "top" => pc' = "input" /\ UNCHANGED <<poseVars, tileVars>>)
       /\ (pc = "input" => pc' = "animate")
       /\ (pc = "input" /\ GameView /\ key' \in {"a", "d"}
             => rotating' /\ rotation_progress' = 0)
       /\ (pc = "animate" => pc' = "render")
       /\ (pc' = "render" /\ rotating' => rotation_progress' >= 1)
       /\ (pc = "render" => UNCHANGED <<poseVars, tileVars>>)]_vars

\* The frame is about to be drawn in the tick that began a rotation, and the
\* rotation has made its first step.
C12_Witness == pc = "render" /\ rotating /\ rotation_progress = 1

\* C18: a move whose destination is impassable is a no-op: position,
\* direction, plane, rotation state and the state of every tile stay as they
\* were.
C18_RejectedMoveNoOp ==
    [][(/\ pc = "input" /\ GameView /\ key' \in {"w", "s"}
        /\ is_wall(MoveTarget(key')[1], MoveTarget(key')[2]))
       => UNCHANGED <<poseVars, tileVars>>]_vars

\* The player stands in the doorway facing along the wall, with wall cells
\* before and behind, and a move key has just been taken.
C18_Witness ==
    /\ pc = "animate" /\ key \in {"w", "s"} /\ GameView
    /\ PlayerCell \in DoorCells /\ dir_x = 0 /\ ~rotating
    /\ is_wall(MoveTarget(key)[1], MoveTarget(key)[2])

C25_AtMostOneAction ==
    [][pc = "input"
        => LET moved == <<pos_x2, pos_y2>>' # <<pos_x2, pos_y2>>
               turned == rotVars' # rotVars
               touched == tileVars' # tileVars
           IN  /\ (key' \in {"none", "x"} => ~moved /\ ~turned /\ ~touched)
               /\ ~(moved /\ turned) /\ ~(moved /\ touched) /\ ~(turned /\ touched)]_vars

\* A key the loop does not know has been taken in the game view, with open
\* floor before the player.
C25_Witness ==
    /\ pc = "animate" /\ key = "x" /\ GameView
    /\ ~is_wall(MoveTarget("w")[1], MoveTarget("w")[2])

\* C23: in every state of the tick loop the cell the player stands in is in
\* bounds and passable; no door has finished closing on it.
C23_PlayerCellPassable ==
    /\ PlayerCell \in Cells
    /\ ~is_wall(PlayerCell[1], PlayerCell[2])

\* C24: with ticks of positive delta-time coming, a door that is animating
\* eventually is not animating, the inventory screen open or not, as long as
\* the loop runs; and an animating door has not yet been given a full
\* duration.
C24_AnimatingDoorStops ==
    \A c \in DoorCells :
        /\ door[c].door_animating ~> (~door[c].door_animating \/ ~running)
        /\ [](door[c].door_animating => door[c].door_animation_progress < ProgressUnit)

\* A door stands fully open after a swing while the inventory screen is open.
C24_Witness ==
    \E c \in DoorCells :
        /\ inventory_open /\ pc = "render"
        /\ FullyOpen(door[c]) /\ door[c].door_animation_progress >= ProgressUnit

\* C32: an animating door's animation type is opening exactly when its open
\* flag is false and closing exactly when it is true, so the toggle at the
\* end of a swing leaves the door open after opening and closed after
\* closing.
C32_AnimationTypeMatchesOpenFlag ==
    /\ [](\A c \in DoorCells :
            door[c].door_animating =>
                /\ (door[c].door_animation_type = "opening" <=> ~door[c].door_open)
                /\ (door[c].door_animation_type = "closing" <=> door[c].door_open))
    /\ [][\A c \in DoorCells :
            (door[c].door_animating /\ ~door'[c].door_animating) =>
                (door'[c].door_open <=> door[c].door_animation_type = "opening")]_vars

\* a door part-way through closing, which it can only be after it has opened
C32_Witness ==
    \E c \in DoorCells :
        /\ pc = "render"
        /\ door[c].door_animating /\ door[c].door_animation_type = "closing"
        /\ door[c].door_animation_progress > 0

\* C31: with the inventory screen open the key q returns to the game view:
\* the inventory closes and the loop goes on running.
C31_QuitKeyClosesInventory ==
    [][(pc = "input" /\ inventory_open /\ key' = "q")
         => (~inventory_open' /\ running')]_vars

\* ---------------------------------------------- claims: the door alone
\* C9: a door toggled and fed one full duration, then toggled again and fed
\* one full duration, is closed, not animating and has its progress reset to
\* 0, in however many update steps each duration was fed.
C9_TwoTogglesReset ==
    \A c \in DoorCells :
        (toggles = 2 /\ exact /\ fed = ProgressUnit)
            => /\ ClosedDoor(door[c])
               /\ door[c].door_animation_progress = 0

\* ------------------------------------------------ claims: the ray cast
GridDiameter == IF width > height THEN width ELSE height

\* C4: the stepping loop of a cast ends within 2 * GridDiameter iterations,
\* and a step out of bounds ends it at once with the boundary wall as the hit.
C4_CastTerminates ==
    /\ ray_steps <= 2 * GridDiameter
    /\ (ray_pc # "idle" /\ ~is_valid_position(map_x, map_y)
            => ray_pc # "loop" /\ ray_cell = "boundary_wall")

\* A cast has ended on a step out of bounds.
C4_Witness ==
    ray_pc = "done" /\ ray_cell = "boundary_wall" /\ ~is_valid_position(map_x, map_y)

\* C5: the cell a cast stops at and returns is out of bounds, a Wall, or a
\* Door that is not fully open; a fully-open Door is stepped through like a
\* Floor or Trigger cell and is never the hit.
C5_RayStopsOnlyAtSolid ==
    ray_pc \in {"hit", "done"}
        => \/ ray_cell = "boundary_wall"
           \/ CellKind(map_x, map_y) \in {"outer_wall", "inner_wall"}
           \/ CellKind(map_x, map_y) = "door" /\ ~FullyOpen(door[<<map_x, map_y>>])

\* C6: a cast never divides by zero and returns a perpendicular distance > 0.
C6_DistancePositive ==
    /\ ray_pc # "error"
    /\ (ray_pc = "done" => perp_dist.d # 0 /\ perp_dist.n * perp_dist.d > 0)

\* A cast whose ray has a zero component has returned a distance.
C6_Witness ==
    /\ ray_pc = "done" /\ (ray_dir_x = 0 \/ ray_dir_y = 0)
    /\ perp_dist.n * perp_dist.d > 0 /\ ray_steps > 1

\* C26: a cast changes nothing of the player's pose (position, direction,
\* plane, targets, rotation state) nor of any tile: they are the same before
\* and after every step of it.
C26_CastChangesNoSharedState ==
    [][UNCHANGED <<poseVars, tileVars>> /\ UNCHANGED <<ray_dir_x, ray_dir_y>>]_vars

\* A cast has ended on a door after several steps of its loop.
C26_Witness ==
    ray_pc = "done" /\ ray_steps >= 3 /\ door_cell /\ perp_dist.d # 0

LerpExact ==
    rotating /\ rotation_progress + 1 < RotationTicks
        => \A v \in {dir_x, dir_y, target_dir_x, target_dir_y,
                     plane_x, plane_y, target_plane_x, target_plane_y} :
              v % RotationTicks = 0

\* -------------------------------------------- claims: the trigger alone
\* C11: a trigger with can_retrigger false returns fired on exactly its first
\* on_player_step and no-op on every later one; a trigger with can_retrigger
\* true fires on every call; triggered is true from the first call on and
\* never goes back to false.
C11_TriggerFiresOnceOrAlways ==
    [][\A c \in TriggerCells :
        /\ (calls'[c] # calls[c]
              => /\ (step_result' = "fired") <=> (CanRetrigger(c) \/ calls[c] = 0)
                 /\ fired'[c] = fired[c] + (IF step_result' = "fired" THEN 1 ELSE 0)
                 /\ trig'[c].triggered)
        /\ (trig[c].triggered => trig'[c].triggered)
        /\ (trig[c].triggered <=> calls[c] > 0)]_vars

\* Both triggers were stepped on more than once: the one-shot trigger has
\* fired once, the other one on every call, and the last call was a no-op.
C11_Witness ==
    /\ calls[<<7, 7>>] > 1 /\ fired[<<7, 7>>] = 1
    /\ calls[<<3, 3>>] > 1 /\ fired[<<3, 3>>] = calls[<<3, 3>>]
    /\ step_result = "no-op"

\* --------------------------------------------- claims: the pose alone
\* C13: after a rotate and RotationTicks update_rotation calls with no other
\* rotate, direction and plane equal the target computed at the rotate, which
\* is the turned direction and plane of that moment, and the rotation is no
\* longer in flight; before that it is in flight.
C13_RotationLandsOnTarget ==
    turn # "none"
      => /\ (ticks_since < RotationTicks => rotating /\ rotation_progress = ticks_since)
         /\ (ticks_since >= RotationTicks
               => /\ ~rotating
                  /\ dir_x = target_dir_x /\ dir_y = target_dir_y
                  /\ plane_x = target_plane_x /\ plane_y = target_plane_y
                  /\ dir_x = TurnedX(start_dir_x, start_dir_y, turn)
                  /\ dir_y = TurnedY(start_dir_x, start_dir_y, turn)
                  /\ plane_x = TurnedX(start_plane_x, start_plane_y, turn)
                  /\ plane_y = TurnedY(start_plane_x, start_plane_y, turn))

\* The fifth update_rotation after a rotate has just been made.
C13_Witness ==
    turn # "none" /\ ticks_since = RotationTicks /\ ~rotating /\ dir_x # start_dir_x

\* C14: rotate computes the target by turning the current direction and
\* plane, not the target of a rotation in flight, sets the progress to 0 and
\* the rotation in flight, and changes neither the direction, the plane, the
\* position nor any tile.
C14_RotateTurnsCurrent ==
    [][ticks_since' = 0
        => /\ target_dir_x' = TurnedX(dir_x, dir_y, turn')
           /\ target_dir_y' = TurnedY(dir_x, dir_y, turn')
           /\ target_plane_x' = TurnedX(plane_x, plane_y, turn')
           /\ target_plane_y' = TurnedY(plane_x, plane_y, turn')
           /\ rotating' /\ rotation_progress' = 0
           /\ UNCHANGED <<pos_x2, pos_y2, dir_x, dir_y, plane_x, plane_y>>
           /\ UNCHANGED tileVars]_vars

\* A rotate has just been made part-way through a rotation: the direction is
\* between two axes and is not the target the first rotate was heading for.
C14_Witness ==
    /\ turn # "none" /\ ticks_since = 0 /\ rotating /\ rotation_progress = 0
    /\ dir_x # 0 /\ dir_y # 0
    /\ target_dir_x # 0 /\ target_dir_y # 0

\* C21: under any sequence of rotate calls, rotates made while a rotation is
\* in flight included, and update ticks, neither the direction nor the plane
\* has both components 0.
C21_VectorsNeverZero ==
    /\ (dir_x # 0 \/ dir_y # 0)
    /\ (plane_x # 0 \/ plane_y # 0)

\* A rotation that was restarted part-way has ended: the direction at rest
\* lies between two axes.
C21_Witness ==
    /\ turn # "none" /\ ~rotating /\ ticks_since >= RotationTicks
    /\ dir_x # 0 /\ dir_y # 0

\* C22: whenever no rotation is in flight the direction is one of the four
\* axis-aligned unit vectors and the plane has its initial length 0.66, a
\* rotate made while a rotation is interpolating included.
C22_RestingDirectionOnAxis ==
    ~rotating
      => /\ <<dir_x, dir_y>> \in {<<PoseUnit, 0>>, <<-PoseUnit, 0>>,
                                  <<0, PoseUnit>>, <<0, -PoseUnit>>}
         /\ LET u == InterpDiv      \* divides the vectors at rest
                px == plane_x \div u
                py == plane_y \div u
                len == (PlaneNum * PoseUnit) \div u
            IN  px * px + py * py = len * len

\* C30: the status line's compass label and the minimap's arrow name the
\* same one of the four 90-degree buckets, the one that holds the angle of
\* the direction taken in [0, 360).
C30_LabelAndArrowSameBucket ==
    StatusDirection(dir_x, dir_y) = DirectionArrow(dir_x, dir_y)

\* C20: while a rotation is in flight, after each update_rotation direction
\* and plane are (1 - progress) * the value at the rotate call
\* + progress * target.
C20_LinearFromStart ==
    (turn # "none" /\ rotating /\ ticks_since >= 1)
      => LET p == rotation_progress
             OnLine(v, s, t) == RotationTicks * v = (RotationTicks - p) * s + p * t
         IN  /\ OnLine(dir_x, start_dir_x, target_dir_x)
             /\ OnLine(dir_y, start_dir_y, target_dir_y)
             /\ OnLine(plane_x, start_plane_x, target_plane_x)
             /\ OnLine(plane_y, start_plane_y, target_plane_y)

\* ----------------------------------------- claims: one sweep followed alone
\* C27: the per-tick update is order independent. Whatever cells have been
\* visited so far and in whatever order, every visited tile is what its own
\* update makes of its own state before the sweep, and every other tile is
\* as it was: the state after the sweep does not depend on the order.
C27_UpdateOrderIndependent ==
    /\ \A c \in DoorCells :
          door[c] = IF c \in visited
                    THEN DoorUpdate(door_before[c], delta_time)
                    ELSE door_before[c]
    /\ trig = trig_before

\* a completed sweep that ended a door's opening swing, past a trigger that
\* has fired
C27_Witness ==
    /\ visited = BehaviorCells
    /\ \E c \in DoorCells :
          /\ door_before[c].door_animating
          /\ ~door[c].door_animating
          /\ door[c].door_open
    /\ \E c \in TriggerCells : trig[c].triggered

\* ------------------------------------------- claims: a hit rendered alone
\* C16: rendering a wall hit never ends in an error, whatever texture
\* identifier the wall was made with: an identifier without an entry in the
\* texture table gives a glyph all the same.
C16_MissingTextureFallsBack == glyph # "KeyError"

\* C28: walls and doors are classified alike: the leaf or wall glyph is the
\* horizontal pattern (face-on) exactly when |dot| > 0.5 and the vertical
\* pattern (glancing) otherwise, |dot| = 0.5 included.
C28_FaceOnIffDotAboveHalf ==
    glyph \in {"|", "-"} =>
        (glyph = "-" <=>
            2 * Abs(SurfaceDot(side, ray_dir_x, ray_dir_y, dir_x, dir_y)) > RenderUnit)

\* The leaf of the hit door is drawn at the coordinate wx when the door is d
LeafAt(d, wx) ==
    DoorRender3d(d, side, ray_dir_x, ray_dir_y, dir_x, dir_y, perp_dist, wx)
        \in {"|", "-"}

\* C29: on a door hit the frame bands are always the frame's block; between
\* the bands the coordinates drawn as leaf are symmetric about 0.5, all of
\* them for a closed door and none for an open one, and a coordinate that is
\* leaf at one progress of an opening door is leaf at every earlier progress
\* (of a closing door: at every later progress).
C29_FrameOpaqueLeafShrinks ==
    (door_cell /\ glyph # "none") =>
        LET d == HitDoor
            mirror == [n |-> wall_x.d - wall_x.n, d |-> wall_x.d]
            at(p) == [d EXCEPT !.door_animation_progress = p]
        IN  /\ glyph = DoorRender3d(d, side, ray_dir_x, ray_dir_y, dir_x, dir_y,
                                    perp_dist, wall_x)
            /\ InFrameBand(perp_dist, wall_x) <=> glyph = "frame"
            /\ InFrameBand(perp_dist, wall_x) <=> InFrameBand(perp_dist, mirror)
            /\ LeafAt(d, wall_x) <=> LeafAt(d, mirror)
            /\ ~InFrameBand(perp_dist, wall_x) =>
                  /\ LeafAt(NewDoor, wall_x)
                  /\ ~LeafAt([NewDoor EXCEPT !.door_open = TRUE,
                                             !.door_animation_progress = ProgressUnit],
                             wall_x)
            /\ (d.door_animating /\ LeafAt(d, wall_x)) =>
                  \A p \in 0..(ProgressUnit - 1) :
                      (IF d.door_animation_type = "opening"
                       THEN p <= d.door_animation_progress
                       ELSE p >= d.door_animation_progress) => LeafAt(at(p), wall_x)

\* a closing door rendered between the bands where its leaf has not yet
\* arrived, but arrives at a later progress
C29_Witness ==
    /\ door_cell /\ glyph = " "
    /\ HitDoor.door_animating /\ HitDoor.door_animation_type = "closing"
    /\ HitDoor.door_animation_progress > 0
    /\ \E p \in 0..(ProgressUnit - 1) :
          LeafAt([HitDoor EXCEPT !.door_animation_progress = p], wall_x)

\* -------------------------------------------- claims: the inventory alone
\* C33: an add_item that returns False has changed nothing: the items are as
\* they were and the passed item keeps its count.
C33_FailedAddChangesNothing ==
    [][(last_call'.op = "add" /\ ~last_call'.ret)
         => (items' = items /\ last_call'.left = last_call'.n)]_vars

\* C34: using or removing an infinite consumable leaves the items as they
\* are; using a single-use consumable takes one unit from its stack, and
\* takes the stack out of the list when that was its last unit.
C34_InfiniteKeptSingleLosesOne ==
    [][\A i \in 1..Len(items) :
         (last_call'.op \in {"use", "remove"} /\ last_call'.arg = i - 1) =>
            /\ IsInfinite(items[i]) => items' = items
            /\ (last_call'.op = "use" /\ ~IsInfinite(items[i])) =>
                 items' = IF items[i].count > 1
                          THEN [items EXCEPT ![i].count = @ - 1]
                          ELSE Pop(items, i)]_vars

\* the last unit of a single-use consumable has been used and its stack is
\* gone, next to an infinite consumable still in the list
C34_Witness ==
    /\ last_call.op = "use" /\ last_call.id = 1
    /\ \A i \in 1..Len(items) : items[i].id # 1
    /\ \E i \in 1..Len(items) : items[i].id = 3 /\ items[i].count = 1
    /\ ops >= 4

\* C35: after any equip_item and unequip_item calls at most one item of a
\* slot is equipped, and attack, defense, max_health and max_sp are the
\* unequipped values plus the effects of the items equipped now.
C35_OnePerSlotAndEffectsOfEquipped ==
    /\ \A i, j \in 1..Len(items) :
          (items[i].equipped /\ items[j].equipped
             /\ ItemDefinitions[items[i].id].slot = ItemDefinitions[items[j].id].slot)
          => i = j
    /\ player.attack = NewPlayer.attack + EquippedSum(items, {"attack"}, 1)
    /\ player.defense = NewPlayer.defense + EquippedSum(items, {"defense"}, 1)
    /\ player.max_health = NewPlayer.max_health
                            + EquippedSum(items, {"health", "max_health"}, 1)
    /\ player.max_sp = NewPlayer.max_sp + EquippedSum(items, {"sp", "max_sp"}, 1)

\* the second weapon has displaced the first, with armour and ring on
C35_Witness ==
    /\ last_call.op = "equip" /\ last_call.id = 9 /\ last_call.ret
    /\ \E i \in 1..Len(items) : items[i].id = 4 /\ ~items[i].equipped
    /\ \E i \in 1..Len(items) : items[i].id = 9 /\ items[i].equipped
    /\ \E i \in 1..Len(items) : items[i].id = 5 /\ items[i].equipped
    /\ player.attack = 18 /\ player.max_health = 120

\* ----------------------------------------------- claims: the player alone
\* C36: through add_exp, change_level, take_damage, heal, use_sp, restore_sp,
\* equip_item and unequip_item the level stays within 1..100, the health
\* within 0..max_health and the sp within 0..max_sp.
C36_LevelHealthSpInRange ==
    /\ 1 <= player.level /\ player.level <= 100
    /\ 0 <= player.health /\ player.health <= player.max_health
    /\ 0 <= player.sp /\ player.sp <= player.max_sp

\* at level 100 with armour on, the health taken down to 0 and sp spent
C36_Witness ==
    /\ player.level = 100 /\ player.health = 0
    /\ player.sp < player.max_sp
    /\ \E i \in 1..Len(items) : items[i].equipped

\* ------------------------------------------ claims: the pose moved alone
\* C17: the cell move tests and snaps to is the floor of the candidate
\* pos + dir * (+-1) on each axis, for candidates with a negative coordinate
\* too (\div rounds down).
C17_MoveCellIsFloor ==
    \A s \in {1, -1} :
        /\ MoveCellX(s) = (pos_x2 * DirUnit + 2 * s * dir_x) \div (2 * DirUnit)
        /\ MoveCellY(s) = (pos_y2 * DirUnit + 2 * s * dir_y) \div (2 * DirUnit)

====
